---------------------------- MODULE Spec2Model ----------------------------
(***************************************************************************)
(* Model of the Deezer-scanner browser applications in src/app.js:         *)
(*   - the emoji music player: DetectionState (temporal smoothing of the   *)
(*     classifier output), getComboKey (canonical combo key), MusicPlayer  *)
(*     (playlist selection and transport) and AppController.detectionLoop; *)
(*   - the CUBE AR application: the audio priority logic over the set of   *)
(*     detected image targets.                                             *)
(*                                                                         *)
(* JavaScript strings are sequences of UTF-16 code units, so that          *)
(* Array.prototype.sort, String.prototype.split and template-literal       *)
(* concatenation are modelled by what they do on the code units.           *)
(* JavaScript null is the one-element sequence <<-1>>, undefined is        *)
(* <<-2>>; neither is a string.                                            *)
(***************************************************************************)
EXTENDS Integers, Sequences, FiniteSets, TLC

VARIABLES
    detectionState,   \* the DetectionState object
    stateChanged,     \* detectionLoop: result of the last detectionState.update
    observed,         \* history: the predictions passed to update, oldest first
    musicPlayer,      \* the MusicPlayer object, its Audio element included
    COMBO_PLAYLISTS,  \* the playlist table (configuration, never written)
    mockA, mockB,     \* values of the mockEmojiA / mockEmojiB dropdowns
    callRet,          \* SpecKey: the function last called and its result
    state,            \* CUBE AR: the module-level state object
    isDetected,       \* CUBE AR: target-controller.isDetected per target
    audioElements,    \* CUBE AR: per-target Audio element
    eventLog,         \* history: the CUBE AR events handled and their outcome
    loop,             \* AppController: the detection loop's control state
    scanner           \* the redirect scanner page and its browser session

vars == <<detectionState, stateChanged, observed, musicPlayer, COMBO_PLAYLISTS,
          mockA, mockB, callRet, state, isDetected, audioElements, eventLog,
          loop, scanner>>

pageVars == <<loop, scanner>>

emojiVars == <<detectionState, stateChanged, observed, musicPlayer,
               COMBO_PLAYLISTS, mockA, mockB, callRet, pageVars>>

arVars == <<state, isDetected, audioElements, eventLog>>

----------------------------------------------------------------------------
(* Bounds of the model.                                                    *)

MaxFrames == 9

MaxFlickerFrames == 12

MaxPending == 1

NumTargets == 3

MaxEvents == 5

MaxSessionFrames == 9

MaxUpdateCalls == 3

MaxLoopFrames == 9

MaxSinkEvents == 3

MaxScanFrames == 10

MaxLoads == 1

MaxUnlockEvents == 3

MaxSlotFrames == 9

MaxDetectorCalls == 11

MaxInFlight == 2

----------------------------------------------------------------------------
(* JavaScript values.                                                      *)

Null == <<-1>>

Undefined == <<-2>>

EmptyString == << >>

PIPE == 124

EM_DASH == 8212

DEFAULT == <<68, 69, 70, 65, 85, 76, 84>>

Happy == <<72, 97, 112, 112, 121>>

Sad == <<83, 97, 100>>

Chill == <<67, 104, 105, 108, 108>>

Confused == <<67, 111, 110, 102, 117, 115, 101, 100>>

Smile == <<55357, 56836>>

Devil == <<55357, 56840>>

Truthy(v) == v # Null /\ v # Undefined /\ v # EmptyString

OrNull(v) == IF Truthy(v) THEN v ELSE Null

Min(a, b) == IF a <= b THEN a ELSE b

\* The abstract relational comparison of two strings: code unit by code unit,
\* a proper prefix first.
RECURSIVE StrLess(_, _)
StrLess(s, t) ==
    IF t = << >> THEN FALSE
    ELSE IF s = << >> THEN TRUE
    ELSE IF s[1] # t[1] THEN s[1] < t[1]
    ELSE StrLess(Tail(s), Tail(t))

\* Array.prototype.sort() without comparator, on the arrays of at most two
\* strings the callers build: elements are exchanged only when the second
\* compares less than the first.
NoSort(arr) == arr

Sort(arr) ==
    IF Len(arr) = 2 /\ StrLess(arr[2], arr[1]) THEN <<arr[2], arr[1]>> ELSE arr

RECURSIVE Join(_, _)
Join(arr, sep) ==
    IF arr = << >> THEN << >>
    ELSE IF Len(arr) = 1 THEN arr[1]
    ELSE arr[1] \o sep \o Join(Tail(arr), sep)

\* String.prototype.split(sep) for a one-code-unit separator.
RECURSIVE SplitFrom(_, _, _)
SplitFrom(s, sep, cur) ==
    IF s = << >> THEN <<cur>>
    ELSE IF s[1] = sep THEN <<cur>> \o SplitFrom(Tail(s), sep, << >>)
    ELSE SplitFrom(Tail(s), sep, Append(cur, s[1]))

Split(s, sep) == SplitFrom(s, sep, << >>)

Includes(s, c) == \E i \in 1..Len(s) : s[i] = c

----------------------------------------------------------------------------
(* Configuration of the emoji music player.                                *)

SMOOTHING_FRAMES == 8

AGREEMENT_NUM == 6

AGREEMENT_DEN == 10

Track(t, a, s) == [title |-> t, artist |-> a, src |-> s]

KeyOf(a, b) == a \o <<PIPE>> \o b

ShippedPlaylists ==
    (KeyOf(Smile, Devil) :> << Track("Track A", "Artist A", "./assets/audio/track-a.mp3"),
                               Track("Track B", "Artist B", "./assets/audio/track-b.mp3") >>)
    @@ (KeyOf(Devil, Smile) :> << >>)
    @@ (KeyOf(Smile, <<EM_DASH>>) :> << Track("Happy Track 1", "Happy Artist", "./assets/audio/happy-1.mp3") >>)
    @@ (KeyOf(Devil, <<EM_DASH>>) :> << Track("Devil Track 1", "Devil Artist", "./assets/audio/devil-1.mp3") >>)
    @@ (DEFAULT :> << Track("Default Track", "Default Artist", "./assets/audio/default.mp3") >>)

\* Tables an editor of COMBO_PLAYLISTS can write (DEPLOY.md, "Editing
\* Playlist Mappings"): label keys, one with only the sorted pair, one with a
\* pair mapped to the empty list.
LabelPlaylists ==
    (KeyOf(Happy, <<EM_DASH>>) :> << Track("Happy 1", "H", "./assets/audio/happy-1.mp3"),
                                     Track("Happy 2", "H", "./assets/audio/happy-2.mp3"),
                                     Track("Happy 3", "H", "./assets/audio/happy-3.mp3") >>)
    @@ (KeyOf(Happy, Sad) :> << Track("Track A", "Artist A", "./assets/audio/track-a.mp3"),
                                Track("Track B", "Artist B", "./assets/audio/track-b.mp3") >>)
    @@ (DEFAULT :> << Track("Default Track", "Default Artist", "./assets/audio/default.mp3") >>)

EmptyPairPlaylists ==
    (KeyOf(Happy, Sad) :> << >>)
    @@ (KeyOf(Sad, <<EM_DASH>>) :> << Track("Sad 1", "S", "./assets/audio/sad-1.mp3") >>)
    @@ (DEFAULT :> << Track("Default Track", "Default Artist", "./assets/audio/default.mp3") >>)

\* Tables without a usable fallback: no 'DEFAULT' key, and 'DEFAULT' mapped
\* to the empty list.
NoDefaultPlaylists ==
    (KeyOf(Happy, Sad) :> << Track("Track A", "Artist A", "./assets/audio/track-a.mp3"),
                             Track("Track B", "Artist B", "./assets/audio/track-b.mp3") >>)

EmptyDefaultPlaylists ==
    (KeyOf(Sad, <<EM_DASH>>) :> << Track("Sad 1", "S", "./assets/audio/sad-1.mp3") >>)
    @@ (DEFAULT :> << >>)

Tables == {ShippedPlaylists, LabelPlaylists, EmptyPairPlaylists,
           NoDefaultPlaylists, EmptyDefaultPlaylists}

\* Keys a caller can hand to switchPlaylist: the keys of the tables, their
\* reversals, and keys no table holds.
Keys ==
    { DEFAULT,
      KeyOf(Smile, Devil), KeyOf(Devil, Smile), KeyOf(Smile, <<EM_DASH>>),
      KeyOf(Happy, Sad), KeyOf(Sad, Happy), KeyOf(Happy, <<EM_DASH>>),
      KeyOf(Sad, <<EM_DASH>>), KeyOf(Chill, <<EM_DASH>>), KeyOf(Chill, Sad) }

\* What EmojiModelAdapter.predict resolves to: at most two entries, ranked;
\* an entry is represented by the one field update reads, its label.
Pred(l) == [label |-> l]

TickInputs == { << >>, <<Pred(Smile)>>, <<Pred(Smile), Pred(Devil)>> }

----------------------------------------------------------------------------
(* DetectionState                                                          *)

NewDetectionState ==
    [ emojiA |-> Null, emojiB |-> Null,
      smoothingBuffer |-> [emojiA |-> << >>, emojiB |-> << >>],
      frameCount |-> 0 ]

RECURSIVE StableScanLastWins(_, _, _, _)
StableScanLastWins(arr, counts, maxCount, maxValue) ==
    IF arr = << >> THEN [maxCount |-> maxCount, maxValue |-> maxValue]
    ELSE LET val == Head(arr)
         IN IF val = Null THEN StableScanLastWins(Tail(arr), counts, maxCount, maxValue)
            ELSE LET c == (IF val \in DOMAIN counts THEN counts[val] ELSE 0) + 1
                     counts2 == [v \in DOMAIN counts \cup {val} |->
                                    IF v = val THEN c ELSE counts[v]]
                 IN IF c >= maxCount
                    THEN StableScanLastWins(Tail(arr), counts2, c, val)
                    ELSE StableScanLastWins(Tail(arr), counts2, maxCount, maxValue)

\* The forEach of getStableValue: counts per value, the running maximum and
\* the value that last raised it (a later value with an equal count does not
\* replace it).
RECURSIVE StableScan(_, _, _, _)
StableScan(arr, counts, maxCount, maxValue) ==
    IF arr = << >> THEN [maxCount |-> maxCount, maxValue |-> maxValue]
    ELSE LET val == Head(arr)
         IN IF val = Null THEN StableScan(Tail(arr), counts, maxCount, maxValue)
            ELSE LET c == (IF val \in DOMAIN counts THEN counts[val] ELSE 0) + 1
                     counts2 == [v \in DOMAIN counts \cup {val} |->
                                    IF v = val THEN c ELSE counts[v]]
                 IN IF c > maxCount
                    THEN StableScan(Tail(arr), counts2, c, val)
                    ELSE StableScan(Tail(arr), counts2, maxCount, maxValue)

HasQuorumOfHalf(maxCount) == maxCount * 2 >= SMOOTHING_FRAMES

HasQuorumOfSevenTenths(maxCount) == maxCount * 10 >= SMOOTHING_FRAMES * 7

\* maxCount >= CONFIG.SMOOTHING_FRAMES * 0.6, in integers.
HasQuorum(maxCount) == maxCount * AGREEMENT_DEN >= SMOOTHING_FRAMES * AGREEMENT_NUM

getStableValue(arr) ==
    LET r == StableScan(arr, << >>, 0, Null)
    IN IF HasQuorum(r.maxCount) THEN r.maxValue ELSE Null

\* A null or undefined element of a predictions array.
NullEntry == [null |-> TRUE]

\* `(topTwo[i] || null)?.label || null`
PredLabel(predictions, i) ==
    LET topTwo == SubSeq(predictions, 1, Min(2, Len(predictions)))
    IN IF i <= Len(topTwo) /\ "label" \in DOMAIN topTwo[i]
       THEN OrNull(topTwo[i].label)
       ELSE Null

KeepFirstN(buf) ==
    IF Len(buf.emojiA) > SMOOTHING_FRAMES
    THEN [emojiA |-> SubSeq(buf.emojiA, 1, SMOOTHING_FRAMES),
          emojiB |-> SubSeq(buf.emojiB, 1, SMOOTHING_FRAMES)]
    ELSE buf

\* "Keep only last N frames": one shift of both buffers when buffer A exceeds N.
KeepLastN(buf) ==
    IF Len(buf.emojiA) > SMOOTHING_FRAMES
    THEN [emojiA |-> Tail(buf.emojiA), emojiB |-> Tail(buf.emojiB)]
    ELSE buf

updateReportsWhenFull(ds, predictions) ==
    LET pushed == [emojiA |-> Append(ds.smoothingBuffer.emojiA, PredLabel(predictions, 1)),
                   emojiB |-> Append(ds.smoothingBuffer.emojiB, PredLabel(predictions, 2))]
        buf == KeepLastN(pushed)
        ds1 == [ds EXCEPT !.frameCount = @ + 1, !.smoothingBuffer = buf]
        stableA == getStableValue(buf.emojiA)
        stableB == getStableValue(buf.emojiB)
    IN IF Len(buf.emojiA) >= SMOOTHING_FRAMES
       THEN [ds |-> [ds1 EXCEPT !.emojiA = stableA, !.emojiB = stableB], ret |-> TRUE]
       ELSE [ds |-> ds1, ret |-> FALSE]

updateEager(ds, predictions) ==
    LET pushed == [emojiA |-> Append(ds.smoothingBuffer.emojiA, PredLabel(predictions, 1)),
                   emojiB |-> Append(ds.smoothingBuffer.emojiB, PredLabel(predictions, 2))]
        buf == KeepLastN(pushed)
        ds1 == [ds EXCEPT !.frameCount = @ + 1, !.smoothingBuffer = buf]
        stableA == getStableValue(buf.emojiA)
        stableB == getStableValue(buf.emojiB)
    IN IF stableA # ds.emojiA \/ stableB # ds.emojiB
       THEN [ds |-> [ds1 EXCEPT !.emojiA = stableA, !.emojiB = stableB], ret |-> TRUE]
       ELSE [ds |-> ds1, ret |-> FALSE]

\* An update that stores both stable values but reports only a change of slot A.
updateReportsSlotA(ds, predictions) ==
    LET pushed == [emojiA |-> Append(ds.smoothingBuffer.emojiA, PredLabel(predictions, 1)),
                   emojiB |-> Append(ds.smoothingBuffer.emojiB, PredLabel(predictions, 2))]
        buf == KeepLastN(pushed)
        ds1 == [ds EXCEPT !.frameCount = @ + 1, !.smoothingBuffer = buf]
        stableA == getStableValue(buf.emojiA)
        stableB == getStableValue(buf.emojiB)
    IN IF Len(buf.emojiA) >= SMOOTHING_FRAMES
       THEN [ds |-> [ds1 EXCEPT !.emojiA = stableA, !.emojiB = stableB],
             ret |-> stableA # ds.emojiA]
       ELSE [ds |-> ds1, ret |-> FALSE]

\* DetectionState.update with an array: the new object and the returned flag.
update(ds, predictions) ==
    LET pushed == [emojiA |-> Append(ds.smoothingBuffer.emojiA, PredLabel(predictions, 1)),
                   emojiB |-> Append(ds.smoothingBuffer.emojiB, PredLabel(predictions, 2))]
        buf == KeepLastN(pushed)
        ds1 == [ds EXCEPT !.frameCount = @ + 1, !.smoothingBuffer = buf]
        stableA == getStableValue(buf.emojiA)
        stableB == getStableValue(buf.emojiB)
    IN IF Len(buf.emojiA) >= SMOOTHING_FRAMES
          /\ (stableA # ds.emojiA \/ stableB # ds.emojiB)
       THEN [ds |-> [ds1 EXCEPT !.emojiA = stableA, !.emojiB = stableB], ret |-> TRUE]
       ELSE [ds |-> ds1, ret |-> FALSE]

\* A call of DetectionState.update with any argument: arg.given says whether
\* an array, null or undefined is passed, arg.items is the array.  With null
\* or undefined `predictions.slice` raises a TypeError after frameCount has
\* been incremented: threw is TRUE and nothing is returned.
updateCall(ds, arg) ==
    IF arg.given = "array"
    THEN LET r == update(ds, arg.items)
         IN [ds |-> r.ds, ret |-> r.ret, threw |-> FALSE]
    ELSE [ds |-> [ds EXCEPT !.frameCount = @ + 1], ret |-> FALSE, threw |-> TRUE]

\* A reset that empties the windows but keeps the stable values.
resetKeepsStable(ds) ==
    [ds EXCEPT !.smoothingBuffer = [emojiA |-> << >>, emojiB |-> << >>],
               !.frameCount = 0]

\* DetectionState.reset: the object as constructed.
reset(ds) ==
    [ds EXCEPT !.emojiA = Null,
               !.emojiB = Null,
               !.smoothingBuffer = [emojiA |-> << >>, emojiB |-> << >>],
               !.frameCount = 0]

getComboKeyBySlot(ds) ==
    IF ds.emojiA = Null /\ ds.emojiB = Null THEN DEFAULT
    ELSE IF ds.emojiB = Null THEN ds.emojiA \o <<PIPE, EM_DASH>>
    ELSE IF ds.emojiA = Null THEN <<EM_DASH, PIPE>> \o ds.emojiB
    ELSE Join(Sort(<<ds.emojiA, ds.emojiB>>), <<PIPE>>)

\* DetectionState.getComboKey
getComboKey(ds) ==
    LET emojis == SelectSeq(<<ds.emojiA, ds.emojiB>>, LAMBDA e : e # Null)
    IN IF Len(emojis) = 0 THEN DEFAULT
       ELSE IF Len(emojis) = 1 THEN emojis[1] \o <<PIPE, EM_DASH>>
       ELSE Join(Sort(emojis), <<PIPE>>)

\* AppController.getComboKeyFromEmojis
getComboKeyFromEmojis(emojiA, emojiB) ==
    LET emojis == SelectSeq(<<emojiA, emojiB>>, LAMBDA e : Truthy(e) /\ e # EmptyString)
    IN IF Len(emojis) = 0 THEN DEFAULT
       ELSE IF Len(emojis) = 1 THEN emojis[1] \o <<PIPE, EM_DASH>>
       ELSE Join(Sort(emojis), <<PIPE>>)

----------------------------------------------------------------------------
(* MusicPlayer and its Audio element                                       *)

\* The src getter of an Audio element returns the URL resolved against the
\* document; every configured track src is relative.
BASE_URL == "https://host/"

ResolveURL(src) == BASE_URL \o src

NewMusicPlayer ==
    [ audio |-> [src |-> "", paused |-> TRUE, sent |-> << >>],
      currentPlaylist |-> << >>,
      currentTrackIndex |-> -1,
      currentCombo |-> Null,
      isPlaying |-> FALSE,
      pending |-> << >> ]

\* A handler starts with nothing sent to the audio element yet.
Begin(m) == [m EXCEPT !.audio.sent = << >>]

\* audio.src = src: the element loads the new source and is paused by the load.
SetSrc(m, src) ==
    [m EXCEPT !.audio.src = ResolveURL(src), !.audio.paused = TRUE,
              !.audio.sent = Append(@, <<"src", src>>)]

\* MusicPlayer.play up to its await: the promise of audio.play() is pending.
play(m) ==
    IF m.currentTrackIndex < 0 \/ Len(m.currentPlaylist) = 0 THEN m
    ELSE LET track == m.currentPlaylist[m.currentTrackIndex + 1]
             m1 == IF m.audio.src # track.src THEN SetSrc(m, track.src) ELSE m
         IN [m1 EXCEPT !.audio.sent = Append(@, <<"play">>),
                       !.audio.paused = FALSE,
                       !.pending = Append(@, track.src)]

pauseKeepsFlag(m) ==
    [m EXCEPT !.audio.sent = Append(@, <<"pause">>), !.audio.paused = TRUE]

pause(m) ==
    [m EXCEPT !.audio.sent = Append(@, <<"pause">>), !.audio.paused = TRUE,
              !.isPlaying = FALSE]

togglePlayPause(m) == IF m.isPlaying THEN pause(m) ELSE play(m)

nextAutoPlay(m) ==
    IF Len(m.currentPlaylist) = 0 THEN m
    ELSE LET i == (m.currentTrackIndex + 1) % Len(m.currentPlaylist)
         IN play(SetSrc([m EXCEPT !.currentTrackIndex = i], m.currentPlaylist[i + 1].src))

nextNoWrap(m) ==
    IF Len(m.currentPlaylist) = 0 THEN m
    ELSE LET i == Min(m.currentTrackIndex + 1, Len(m.currentPlaylist) - 1)
             m1 == SetSrc([m EXCEPT !.currentTrackIndex = i], m.currentPlaylist[i + 1].src)
         IN IF m1.isPlaying THEN play(m1) ELSE m1

next(m) ==
    IF Len(m.currentPlaylist) = 0 THEN m
    ELSE LET i == (m.currentTrackIndex + 1) % Len(m.currentPlaylist)
             m1 == SetSrc([m EXCEPT !.currentTrackIndex = i], m.currentPlaylist[i + 1].src)
         IN IF m1.isPlaying THEN play(m1) ELSE m1

prev(m) ==
    IF Len(m.currentPlaylist) = 0 THEN m
    ELSE LET i == IF m.currentTrackIndex <= 0 THEN Len(m.currentPlaylist) - 1
                  ELSE m.currentTrackIndex - 1
             m1 == SetSrc([m EXCEPT !.currentTrackIndex = i], m.currentPlaylist[i + 1].src)
         IN IF m1.isPlaying THEN play(m1) ELSE m1

\* COMBO_PLAYLISTS[key]: found is FALSE where JavaScript yields undefined.
TableGet(key) ==
    IF key \in DOMAIN COMBO_PLAYLISTS
    THEN [found |-> TRUE, list |-> COMBO_PLAYLISTS[key]]
    ELSE [found |-> FALSE, list |-> << >>]

ResolvePlaylistExactOnly(comboKey) ==
    LET exact == TableGet(comboKey)
    IN IF ~exact.found \/ Len(exact.list) = 0 THEN TableGet(DEFAULT).list ELSE exact.list

ResolvePlaylistKeepEmpty(comboKey) ==
    LET exact == TableGet(comboKey)
        parts == Split(comboKey, PIPE)
        p1 == IF ~exact.found /\ Includes(comboKey, PIPE) /\ Len(parts) = 2
              THEN TableGet(parts[2] \o <<PIPE>> \o parts[1])
              ELSE exact
    IN IF ~p1.found THEN TableGet(DEFAULT).list ELSE p1.list

\* Lines 822-837 of switchPlaylist: exact key, reversed key, DEFAULT.
ResolvePlaylist(comboKey) ==
    LET exact == TableGet(comboKey)
        parts == Split(comboKey, PIPE)
        p1 == IF ~exact.found /\ Includes(comboKey, PIPE) /\ Len(parts) = 2
              THEN TableGet(parts[2] \o <<PIPE>> \o parts[1])
              ELSE exact
    IN IF ~p1.found \/ Len(p1.list) = 0
       THEN TableGet(DEFAULT).list
       ELSE p1.list

switchPlaylistAlways(m, comboKey) ==
    LET m1 == [m EXCEPT !.currentPlaylist = ResolvePlaylist(comboKey),
                        !.currentCombo = comboKey,
                        !.currentTrackIndex = -1]
    IN IF m1.isPlaying THEN next(pause(m1)) ELSE next(m1)

\* A switch that keeps the track index of the playlist it leaves.
switchPlaylistKeepsIndex(m, comboKey) ==
    IF comboKey = m.currentCombo THEN m
    ELSE LET m1 == [m EXCEPT !.currentPlaylist = ResolvePlaylist(comboKey),
                             !.currentCombo = comboKey]
         IN IF m1.isPlaying THEN next(pause(m1)) ELSE next(m1)

\* A continuity guard on the resolved playlist instead of the key.
switchPlaylistComparesPlaylists(m, comboKey) ==
    IF comboKey = m.currentCombo THEN m
    ELSE IF m.currentCombo # Null /\ ResolvePlaylist(comboKey) = m.currentPlaylist
    THEN [m EXCEPT !.currentCombo = comboKey]
    ELSE LET m1 == [m EXCEPT !.currentPlaylist = ResolvePlaylist(comboKey),
                             !.currentCombo = comboKey,
                             !.currentTrackIndex = -1]
         IN IF m1.isPlaying THEN next(pause(m1)) ELSE next(m1)

switchPlaylistNoPause(m, comboKey) ==
    IF comboKey = m.currentCombo THEN m
    ELSE next([m EXCEPT !.currentPlaylist = ResolvePlaylist(comboKey),
                        !.currentCombo = comboKey,
                        !.currentTrackIndex = -1])

switchPlaylist(m, comboKey) ==
    IF comboKey = m.currentCombo THEN m
    ELSE LET m1 == [m EXCEPT !.currentPlaylist = ResolvePlaylist(comboKey),
                             !.currentCombo = comboKey,
                             !.currentTrackIndex = -1]
         IN IF m1.isPlaying THEN next(pause(m1)) ELSE next(m1)

----------------------------------------------------------------------------
(* CUBE AR: audio priority over the detected image targets                 *)

NULL_INDEX == -1

Targets == 0..(NumTargets - 1)

NewState ==
    [ detectedTargets |-> << >>,      \* a Set: iterated in insertion order
      lastFoundIndex |-> NULL_INDEX,
      currentAudioIndex |-> NULL_INDEX,
      audioMuted |-> TRUE ]

\* pending counts the promises of audio.play() made by playAudioForTarget
\* that are not settled yet; unlock says that the promise of the play() made
\* by handleTapToStart is not settled yet.
NewAudioElements ==
    [t \in Targets |-> [paused |-> TRUE, pending |-> 0, unlock |-> FALSE]]

\* The audio loop of handleTapToStart: play() on every element, with the
\* pause-and-rewind callback waiting for the promise.
handleTapToStart(els) ==
    [t \in Targets |-> [els[t] EXCEPT !.paused = FALSE, !.unlock = TRUE]]

SetHas(set, t) == \E i \in 1..Len(set) : set[i] = t

SetAdd(set, t) == IF SetHas(set, t) THEN set ELSE Append(set, t)

SetDelete(set, t) == SelectSeq(set, LAMBDA x : x # t)

\* The functions below take and return w = [state, audioElements, sent]; sent
\* lists the commands the handler has given to the audio elements so far.
\* audio.pause(); audio.currentTime = 0
PauseElement(w, t) ==
    [w EXCEPT !.audioElements[t].paused = TRUE,
              !.sent = Append(@, <<"pause", t>>)]

playAudioForTargetIgnoresMute(w, targetIndex) ==
    LET cur == w.state.currentAudioIndex
        w1 == IF cur # NULL_INDEX /\ cur # targetIndex THEN PauseElement(w, cur) ELSE w
    IN [w1 EXCEPT !.audioElements[targetIndex].paused = FALSE,
                  !.audioElements[targetIndex].pending = @ + 1,
                  !.sent = Append(@, <<"play", targetIndex>>),
                  !.state.currentAudioIndex = targetIndex]

\* A playAudioForTarget that leaves the previous owner's element playing.
playAudioForTargetKeepsPrevious(w, targetIndex) ==
    IF w.state.audioMuted THEN w
    ELSE [w EXCEPT !.audioElements[targetIndex].paused = FALSE,
                   !.audioElements[targetIndex].pending = @ + 1,
                   !.sent = Append(@, <<"play", targetIndex>>),
                   !.state.currentAudioIndex = targetIndex]

playAudioForTarget(w, targetIndex) ==
    IF w.state.audioMuted THEN w
    ELSE LET cur == w.state.currentAudioIndex
             w1 == IF cur # NULL_INDEX /\ cur # targetIndex THEN PauseElement(w, cur) ELSE w
         IN [w1 EXCEPT !.audioElements[targetIndex].paused = FALSE,
                       !.audioElements[targetIndex].pending = @ + 1,
                       !.sent = Append(@, <<"play", targetIndex>>),
                       !.state.currentAudioIndex = targetIndex]

stopAudioForTarget(w, targetIndex) ==
    LET w1 == PauseElement(w, targetIndex)
    IN IF w1.state.currentAudioIndex = targetIndex
       THEN [w1 EXCEPT !.state.currentAudioIndex = NULL_INDEX]
       ELSE w1

updateAudioPlaybackLowestId(w) ==
    LET st == w.state
        n == Len(st.detectedTargets)
        lowest == CHOOSE t \in Targets :
                     /\ SetHas(st.detectedTargets, t)
                     /\ \A u \in Targets : SetHas(st.detectedTargets, u) => t <= u
    IN IF n = 0
       THEN IF st.currentAudioIndex # NULL_INDEX
            THEN stopAudioForTarget(w, st.currentAudioIndex)
            ELSE w
       ELSE IF n = 1
       THEN IF st.currentAudioIndex # st.detectedTargets[1]
            THEN playAudioForTarget(w, st.detectedTargets[1])
            ELSE w
       ELSE IF st.lastFoundIndex # NULL_INDEX /\ SetHas(st.detectedTargets, st.lastFoundIndex)
       THEN IF st.currentAudioIndex # st.lastFoundIndex
            THEN playAudioForTarget(w, st.lastFoundIndex)
            ELSE w
       ELSE LET w1 == playAudioForTarget(w, lowest)
            IN [w1 EXCEPT !.state.lastFoundIndex = lowest]

updateAudioPlaybackAlwaysPlay(w) ==
    LET st == w.state
        n == Len(st.detectedTargets)
    IN IF n = 0
       THEN IF st.currentAudioIndex # NULL_INDEX
            THEN stopAudioForTarget(w, st.currentAudioIndex)
            ELSE w
       ELSE IF n = 1
       THEN playAudioForTarget(w, st.detectedTargets[1])
       ELSE IF st.lastFoundIndex # NULL_INDEX /\ SetHas(st.detectedTargets, st.lastFoundIndex)
       THEN playAudioForTarget(w, st.lastFoundIndex)
       ELSE LET newTarget == st.detectedTargets[1]
                w1 == playAudioForTarget(w, newTarget)
            IN [w1 EXCEPT !.state.lastFoundIndex = newTarget]

updateAudioPlayback(w) ==
    LET st == w.state
        n == Len(st.detectedTargets)
    IN IF n = 0
       THEN IF st.currentAudioIndex # NULL_INDEX
            THEN stopAudioForTarget(w, st.currentAudioIndex)
            ELSE w
       ELSE IF n = 1
       THEN IF st.currentAudioIndex # st.detectedTargets[1]
            THEN playAudioForTarget(w, st.detectedTargets[1])
            ELSE w
       ELSE IF st.lastFoundIndex # NULL_INDEX /\ SetHas(st.detectedTargets, st.lastFoundIndex)
       THEN IF st.currentAudioIndex # st.lastFoundIndex
            THEN playAudioForTarget(w, st.lastFoundIndex)
            ELSE w
       ELSE LET newTarget == st.detectedTargets[1]
                w1 == playAudioForTarget(w, newTarget)
            IN [w1 EXCEPT !.state.lastFoundIndex = newTarget]

onTargetFoundNoPriority(w, t) ==
    updateAudioPlayback([w EXCEPT !.state.detectedTargets = SetAdd(@, t)])

onTargetFound(w, t) ==
    updateAudioPlayback([w EXCEPT !.state.detectedTargets = SetAdd(@, t),
                                  !.state.lastFoundIndex = t])

onTargetLostNoUpdate(w, t) ==
    [w EXCEPT !.state.detectedTargets = SetDelete(@, t)]

onTargetLost(w, t) ==
    updateAudioPlayback([w EXCEPT !.state.detectedTargets = SetDelete(@, t)])

toggleMute(w) ==
    LET w1 == [w EXCEPT !.state.audioMuted = ~@]
    IN IF w1.state.audioMuted
       THEN IF w1.state.currentAudioIndex # NULL_INDEX
            THEN stopAudioForTarget(w1, w1.state.currentAudioIndex)
            ELSE w1
       ELSE updateAudioPlayback(w1)

World == [state |-> state, audioElements |-> audioElements, sent |-> << >>]

LogEntry(ev, t, w) ==
    [ ev |-> ev, target |-> t,
      owner |-> w.state.currentAudioIndex,
      muted |-> w.state.audioMuted,
      active |-> {w.state.detectedTargets[i] : i \in 1..Len(w.state.detectedTargets)},
      order |-> w.state.detectedTargets,
      pointer |-> w.state.lastFoundIndex,
      sent |-> w.sent ]

HandleTargetFoundReclaims(t) ==
    /\ LET w == onTargetFound(World, t)
       IN /\ isDetected' = [isDetected EXCEPT ![t] = TRUE]
          /\ state' = w.state
          /\ audioElements' = w.audioElements
          /\ eventLog' = Append(eventLog,
                 LogEntry(IF isDetected[t] THEN "found-ignored" ELSE "found", t, w))
    /\ UNCHANGED emojiVars

\* The targetFound listener of target t.  An event for a target that is
\* already detected returns at once; the log records it as ignored.
HandleTargetFound(t) ==
    /\ IF isDetected[t]
       THEN /\ eventLog' = Append(eventLog, LogEntry("found-ignored", t, World))
            /\ UNCHANGED <<state, isDetected, audioElements>>
       ELSE LET w == onTargetFound(World, t)
            IN /\ isDetected' = [isDetected EXCEPT ![t] = TRUE]
               /\ state' = w.state
               /\ audioElements' = w.audioElements
               /\ eventLog' = Append(eventLog, LogEntry("found", t, w))
    /\ UNCHANGED emojiVars

\* The targetLost listener of target t.
HandleTargetLost(t) ==
    /\ IF ~isDetected[t]
       THEN /\ eventLog' = Append(eventLog, LogEntry("lost-ignored", t, World))
            /\ UNCHANGED <<state, isDetected, audioElements>>
       ELSE LET w == onTargetLost(World, t)
            IN /\ isDetected' = [isDetected EXCEPT ![t] = FALSE]
               /\ state' = w.state
               /\ audioElements' = w.audioElements
               /\ eventLog' = Append(eventLog, LogEntry("lost", t, w))
    /\ UNCHANGED emojiVars

\* A click on the mute button.
HandleToggleMute ==
    /\ LET w == toggleMute(World)
       IN /\ state' = w.state
          /\ audioElements' = w.audioElements
          /\ eventLog' = Append(eventLog, LogEntry("mute", NULL_INDEX, w))
    /\ UNCHANGED <<isDetected, emojiVars>>

TargetFound(t) ==
    /\ Len(eventLog) < MaxEvents
    /\ HandleTargetFound(t)

TargetLost(t) ==
    /\ Len(eventLog) < MaxEvents
    /\ HandleTargetLost(t)

ToggleMute ==
    /\ Len(eventLog) < MaxEvents
    /\ HandleToggleMute

\* AppController after construction: isDetecting is false and no iteration of
\* the loop is scheduled.  awaiting holds the iterations suspended at
\* `await modelAdapter.predict(...)`, each with the predictions its promise
\* will deliver; sampled is the history of the frames handed to predict.
NewLoopControl ==
    [ isDetecting |-> FALSE,
      MOCK_MODE |-> FALSE,
      mockListeners |-> FALSE,
      scheduled |-> 0,
      awaiting |-> << >>,
      sampled |-> << >>,
      lastMock |-> << >> ]

\* null in lastPredictedLabel, which otherwise holds a class name.
NO_LABEL == "(null)"

\* The scanner page before its script has run, in a fresh browser session.
NewScanner ==
    [ loaded |-> FALSE,
      stream |-> FALSE,
      inferenceInterval |-> FALSE,
      consecutiveMatches |-> 0,
      lastPredictedLabel |-> NO_LABEL,
      inFlight |-> 0,
      redirected |-> FALSE,
      timers |-> 0,
      location |-> "scanner",
      processed |-> << >>,
      frames |-> 0,
      loads |-> 0,
      scheduledRedirects |-> << >> ]

InitPage ==
    /\ loop = NewLoopControl
    /\ scanner = NewScanner

InitEmoji ==
    /\ detectionState = NewDetectionState
    /\ stateChanged = FALSE
    /\ observed = << >>
    /\ musicPlayer = NewMusicPlayer
    /\ COMBO_PLAYLISTS = ShippedPlaylists
    /\ mockA = EmptyString
    /\ mockB = EmptyString
    /\ callRet = [fn |-> "none", val |-> Null]
    /\ InitPage

InitAR ==
    /\ state = NewState
    /\ isDetected = [t \in Targets |-> FALSE]
    /\ audioElements = NewAudioElements
    /\ eventLog = << >>

SpecArbiterInit == InitEmoji /\ InitAR

SpecArbiterNext ==
    \/ \E t \in Targets : TargetFound(t)
    \/ \E t \in Targets : TargetLost(t)
    \/ ToggleMute

SpecArbiter == SpecArbiterInit /\ [][SpecArbiterNext]_vars

----------------------------------------------------------------------------
(* The emoji music player: one iteration of AppController.detectionLoop    *)
(* that samples a frame (real detection, model loaded).  The iteration     *)
(* awaits predict; nothing else writes detectionState meanwhile.           *)

\* l = [ds, mp, changed]: the DetectionState, the MusicPlayer and the flag
\* update returned.  Lines 1136-1143: update, then switchPlaylist with the
\* combo key when update reported a change.
LoopStep(l, predictions) ==
    LET r == update(l.ds, predictions)
    IN [ ds |-> r.ds,
         changed |-> r.ret,
         mp |-> IF r.ret THEN switchPlaylist(Begin(l.mp), getComboKey(r.ds))
                ELSE Begin(l.mp) ]

\* The loop state after the first n of ticks, from l.
RECURSIVE RunLoop(_, _, _)
RunLoop(l, ticks, n) ==
    IF n = 0 THEN l
    ELSE LET before == RunLoop(l, ticks, n - 1)
         IN LoopStep(before, ticks[n])

NewLoop == [ds |-> NewDetectionState, mp |-> NewMusicPlayer, changed |-> FALSE]

\* The application after the loop has processed ticks, from start-up.
AfterTicks(ticks) ==
    LET l == RunLoop(NewLoop, ticks, Len(ticks))
    IN /\ observed = ticks
       /\ detectionState = l.ds
       /\ musicPlayer = l.mp
       /\ stateChanged = l.changed

DetectionLoop(predictions, maxFrames) ==
    /\ detectionState.frameCount < maxFrames
    /\ LET l == LoopStep([ds |-> detectionState, mp |-> musicPlayer,
                          changed |-> stateChanged], predictions)
       IN /\ detectionState' = l.ds
          /\ stateChanged' = l.changed
          /\ musicPlayer' = l.mp
    /\ observed' = Append(observed, predictions)
    /\ UNCHANGED <<COMBO_PLAYLISTS, mockA, mockB, callRet, arVars, pageVars>>

Init == InitEmoji /\ InitAR

Next == \E predictions \in TickInputs : DetectionLoop(predictions, MaxFrames)

Spec == Init /\ [][Next]_vars

\* The loop from the moment slot A's window is full of one label: eight
\* ticks that all ranked Smile first, then MaxFlickerFrames ticks in all.
SteadyInputs == { <<Pred(Smile)>>, <<Pred(Smile), Pred(Devil)>> }

InitFlicker ==
    /\ COMBO_PLAYLISTS = ShippedPlaylists
    /\ \E ticks \in [1..SMOOTHING_FRAMES -> SteadyInputs] : AfterTicks(ticks)
    /\ mockA = EmptyString
    /\ mockB = EmptyString
    /\ callRet = [fn |-> "none", val |-> Null]
    /\ InitPage
    /\ InitAR

SpecFlickerNext == \E predictions \in TickInputs : DetectionLoop(predictions, MaxFlickerFrames)

SpecFlicker == InitFlicker /\ [][SpecFlickerNext]_vars

----------------------------------------------------------------------------
(* The MusicPlayer driven by its callers: switchPlaylist with any key, the *)
(* transport buttons, the 'ended' event of the audio element and the       *)
(* settling of the promises returned by audio.play().                      *)

InitPlayer ==
    /\ detectionState = NewDetectionState
    /\ stateChanged = FALSE
    /\ observed = << >>
    /\ musicPlayer = NewMusicPlayer
    /\ COMBO_PLAYLISTS \in Tables
    /\ mockA = EmptyString
    /\ mockB = EmptyString
    /\ callRet = [fn |-> "none", val |-> Null]
    /\ InitPage
    /\ InitAR

PlayerFrame == UNCHANGED <<detectionState, stateChanged, observed, COMBO_PLAYLISTS,
                           mockA, mockB, callRet, arVars, pageVars>>

SwitchPlaylist(comboKey) ==
    /\ musicPlayer' = switchPlaylist(Begin(musicPlayer), comboKey)
    /\ PlayerFrame

TogglePlayPause ==
    /\ Len(musicPlayer.pending) < MaxPending
    /\ musicPlayer' = togglePlayPause(Begin(musicPlayer))
    /\ PlayerFrame

NextTrack ==
    /\ Len(musicPlayer.pending) < MaxPending
    /\ musicPlayer' = next(Begin(musicPlayer))
    /\ PlayerFrame

PrevTrack ==
    /\ Len(musicPlayer.pending) < MaxPending
    /\ musicPlayer' = prev(Begin(musicPlayer))
    /\ PlayerFrame

EndedNoAdvance ==
    /\ musicPlayer.pending = << >>
    /\ ~musicPlayer.audio.paused
    /\ musicPlayer' = [Begin(musicPlayer) EXCEPT !.audio.paused = TRUE]
    /\ PlayerFrame

\* The 'ended' listener: the element was playing (its play() promises are
\* settled) and reached the end.
Ended ==
    /\ musicPlayer.pending = << >>
    /\ ~musicPlayer.audio.paused
    /\ musicPlayer' = next([Begin(musicPlayer) EXCEPT !.audio.paused = TRUE])
    /\ PlayerFrame

\* The continuation of play() after await this.audio.play() resolved.
PlayResolved ==
    /\ musicPlayer.pending # << >>
    /\ musicPlayer' = [Begin(musicPlayer) EXCEPT !.pending = Tail(@), !.isPlaying = TRUE]
    /\ PlayerFrame

PlayRejectedRollsBack ==
    /\ musicPlayer.pending # << >>
    /\ musicPlayer' = [Begin(musicPlayer) EXCEPT !.pending = Tail(@),
                                                 !.audio.paused = TRUE,
                                                 !.currentCombo = Null,
                                                 !.currentPlaylist = << >>,
                                                 !.currentTrackIndex = -1]
    /\ PlayerFrame

\* The catch of play(): the audio element refused to start.
PlayRejected ==
    /\ musicPlayer.pending # << >>
    /\ musicPlayer' = [Begin(musicPlayer) EXCEPT !.pending = Tail(@),
                                                 !.audio.paused = TRUE]
    /\ PlayerFrame

SpecPlayerNext ==
    \/ \E comboKey \in Keys : SwitchPlaylist(comboKey)
    \/ TogglePlayPause
    \/ NextTrack
    \/ PrevTrack
    \/ Ended
    \/ PlayResolved
    \/ PlayRejected

SpecPlayer == InitPlayer /\ [][SpecPlayerNext]_vars

----------------------------------------------------------------------------
(* A session: the detection loop over a table keyed by labels, the         *)
(* play/pause button and the settling of the play() promises.  The         *)
(* classifier ranks 'Happy' first or nothing at all.                       *)

SessionInputs == { << >>, <<Pred(Happy)>> }

InitSession ==
    /\ detectionState = NewDetectionState
    /\ stateChanged = FALSE
    /\ observed = << >>
    /\ musicPlayer = NewMusicPlayer
    /\ COMBO_PLAYLISTS = LabelPlaylists
    /\ mockA = EmptyString
    /\ mockB = EmptyString
    /\ callRet = [fn |-> "none", val |-> Null]
    /\ InitPage
    /\ InitAR

SpecSessionNext ==
    \/ \E predictions \in SessionInputs : DetectionLoop(predictions, MaxSessionFrames)
    \/ TogglePlayPause
    \/ PlayResolved
    \/ PlayRejected

SpecSession == InitSession /\ [][SpecSessionNext]_vars

----------------------------------------------------------------------------
(* getComboKey, getComboKeyFromEmojis and getStableValue called on the     *)
(* states the detector can be in.                                          *)

KeyValues == {Null, Smile, Devil, Happy, Confused, Sad, Chill}

MockValues == {EmptyString, Smile, Devil}

WindowValues == {Null, Smile, Devil}

\* The detector after SMOOTHING_FRAMES ticks that ranked a first and b second.
InitKey ==
    /\ COMBO_PLAYLISTS = ShippedPlaylists
    /\ \E a \in KeyValues, b \in KeyValues :
          AfterTicks([i \in 1..SMOOTHING_FRAMES |-> <<Pred(a), Pred(b)>>])
    /\ mockA \in MockValues
    /\ mockB \in MockValues
    /\ callRet = [fn |-> "none", val |-> Null]
    /\ InitPage
    /\ InitAR

\* The detector after SMOOTHING_FRAMES ticks with any top labels.
InitStable ==
    /\ COMBO_PLAYLISTS = ShippedPlaylists
    /\ \E w \in [1..SMOOTHING_FRAMES -> WindowValues] :
          AfterTicks([i \in 1..SMOOTHING_FRAMES |-> <<Pred(w[i])>>])
    /\ mockA = EmptyString
    /\ mockB = EmptyString
    /\ callRet = [fn |-> "none", val |-> Null]
    /\ InitPage
    /\ InitAR

CallFrame == UNCHANGED <<detectionState, stateChanged, observed, musicPlayer,
                         COMBO_PLAYLISTS, mockA, mockB, arVars, pageVars>>

CallGetComboKey ==
    /\ callRet' = [fn |-> "getComboKey", val |-> getComboKey(detectionState)]
    /\ CallFrame

\* As the mock-mode callers do: the dropdown values, '' read as null.
CallGetComboKeyFromEmojis ==
    /\ callRet' = [fn |-> "getComboKeyFromEmojis",
                   val |-> getComboKeyFromEmojis(OrNull(mockA), OrNull(mockB))]
    /\ CallFrame

CallGetStableValue ==
    /\ callRet' = [fn |-> "getStableValue",
                   val |-> getStableValue(detectionState.smoothingBuffer.emojiA),
                   scan |-> StableScan(detectionState.smoothingBuffer.emojiA, << >>, 0, Null)]
    /\ CallFrame

SpecKeyNext == CallGetComboKey \/ CallGetComboKeyFromEmojis

SpecKey == InitKey /\ [][SpecKeyNext]_vars

SpecStableNext == CallGetStableValue

SpecStable == InitStable /\ [][SpecStableNext]_vars

\* DetectionState.update called on a new object with well-formed and
\* malformed arguments: arrays of zero to three entries, entries that are
\* null, labels that are null, undefined or '', and null or undefined in
\* place of the array.
UpdateItems ==
    { << >>,
      <<Pred(Smile)>>,
      <<Pred(Smile), Pred(Devil)>>,
      <<Pred(Smile), Pred(Devil), Pred(Happy)>>,
      <<NullEntry>>,
      <<NullEntry, Pred(Devil)>>,
      <<Pred(Null)>>,
      <<Pred(Undefined), Pred(EmptyString)>> }

UpdateArgs ==
    { [given |-> "array", items |-> it] : it \in UpdateItems }
        \cup { [given |-> g, items |-> << >>] : g \in {"null", "undefined"} }

CallUpdate(arg) ==
    /\ detectionState.frameCount < MaxUpdateCalls
    /\ LET r == updateCall(detectionState, arg)
       IN /\ detectionState' = r.ds
          /\ stateChanged' = r.ret
          /\ callRet' = [fn |-> "update", arg |-> arg, val |-> r.ret, threw |-> r.threw]
    /\ UNCHANGED <<observed, musicPlayer, COMBO_PLAYLISTS, mockA, mockB, arVars, pageVars>>

SpecUpdateNext == \E arg \in UpdateArgs : CallUpdate(arg)

SpecUpdate == Init /\ [][SpecUpdateNext]_vars

\* The loop with rankings whose two entries may carry the same label or
\* change places from tick to tick, and a listener at the play and next
\* buttons.  (predict labels the i-th detection emojiLabels[i] or, without
\* such a label, with the class of the detected object; two objects of one
\* class then give one label twice.)
SlotInputs ==
    { <<Pred(Happy), Pred(Sad)>>, <<Pred(Sad), Pred(Happy)>>, <<Pred(Happy), Pred(Happy)>> }

\* The loop after four ticks that ranked Happy first and Sad second.
InitSlots ==
    /\ COMBO_PLAYLISTS = LabelPlaylists
    /\ AfterTicks([i \in 1..4 |-> <<Pred(Happy), Pred(Sad)>>])
    /\ mockA = EmptyString
    /\ mockB = EmptyString
    /\ callRet = [fn |-> "none", val |-> Null]
    /\ InitPage
    /\ InitAR

SpecSlotsNext ==
    \/ \E predictions \in SlotInputs : DetectionLoop(predictions, MaxSlotFrames)
    \/ TogglePlayPause
    \/ NextTrack
    \/ PlayResolved
    \/ PlayRejected

SpecSlots == InitSlots /\ [][SpecSlotsNext]_vars

\* The DetectionState object alone, driven through its two mutating methods:
\* update with the per-tick rankings and reset.  It starts one tick short of
\* a full window, and reset brings it back to the object as constructed;
\* observed counts the update calls made.
InitDetector ==
    /\ COMBO_PLAYLISTS = ShippedPlaylists
    /\ \E ticks \in [1..(SMOOTHING_FRAMES - 1) -> SteadyInputs] :
         /\ observed = ticks
         /\ detectionState = RunLoop(NewLoop, ticks, Len(ticks)).ds
    /\ stateChanged = FALSE
    /\ musicPlayer = NewMusicPlayer
    /\ mockA = EmptyString
    /\ mockB = EmptyString
    /\ callRet = [fn |-> "none", val |-> FALSE]
    /\ InitPage
    /\ InitAR

DetectorFrame == UNCHANGED <<musicPlayer, COMBO_PLAYLISTS, mockA, mockB, arVars, pageVars>>

DetectorUpdate(predictions) ==
    /\ Len(observed) < MaxDetectorCalls
    /\ LET r == update(detectionState, predictions)
       IN /\ detectionState' = r.ds
          /\ stateChanged' = r.ret
          /\ callRet' = [fn |-> "update", val |-> r.ret]
    /\ observed' = Append(observed, predictions)
    /\ DetectorFrame

\* reset() on an object that has seen at least one update.
DetectorReset ==
    /\ detectionState.frameCount > 0
    /\ detectionState' = reset(detectionState)
    /\ callRet' = [fn |-> "reset", val |-> FALSE]
    /\ UNCHANGED <<stateChanged, observed>>
    /\ DetectorFrame

SpecDetectorNext ==
    \/ \E predictions \in TickInputs : DetectorUpdate(predictions)
    \/ DetectorReset

SpecDetector == InitDetector /\ [][SpecDetectorNext]_vars

----------------------------------------------------------------------------
(* Rejected play requests.  The MusicPlayer with its buttons and a few      *)
(* switchPlaylist calls, and the CUBE AR handlers, each with the settling   *)
(* of the promises of audio.play(): MusicPlayer.play awaits the promise in  *)
(* a try/catch, playAudioForTarget attaches a catch that logs a warning.    *)

SinkKeys == { KeyOf(Happy, <<EM_DASH>>), KeyOf(Happy, Sad) }

InitSink ==
    /\ detectionState = NewDetectionState
    /\ stateChanged = FALSE
    /\ observed = << >>
    /\ musicPlayer = NewMusicPlayer
    /\ COMBO_PLAYLISTS = LabelPlaylists
    /\ mockA = EmptyString
    /\ mockB = EmptyString
    /\ callRet = [fn |-> "none", val |-> Null]
    /\ InitPage
    /\ InitAR

\* The promise of audioElements[t].play() is fulfilled: playAudioForTarget
\* attached no fulfilment handler.
AudioPlayResolved(t) ==
    /\ audioElements[t].pending > 0
    /\ audioElements' = [audioElements EXCEPT ![t].pending = @ - 1]
    /\ UNCHANGED <<state, isDetected, eventLog, emojiVars>>

\* The promise is rejected: the element does not play, the catch handler
\* logs a warning and touches no state.
AudioPlayRejected(t) ==
    /\ audioElements[t].pending > 0
    /\ audioElements' = [audioElements EXCEPT ![t].pending = @ - 1,
                                              ![t].paused = TRUE]
    /\ UNCHANGED <<state, isDetected, eventLog, emojiVars>>

SpecSinkNext ==
    \/ \E comboKey \in SinkKeys : SwitchPlaylist(comboKey)
    \/ TogglePlayPause
    \/ NextTrack
    \/ PlayResolved
    \/ PlayRejected
    \/ \E t \in Targets : Len(eventLog) < MaxSinkEvents /\ HandleTargetFound(t)
    \/ \E t \in Targets : Len(eventLog) < MaxSinkEvents /\ HandleTargetLost(t)
    \/ Len(eventLog) < MaxSinkEvents /\ HandleToggleMute
    \/ \E t \in Targets : AudioPlayResolved(t)
    \/ \E t \in Targets : AudioPlayRejected(t)

SpecSink == InitSink /\ [][SpecSinkNext]_vars

----------------------------------------------------------------------------
(* CUBE AR from the tap that starts it.  handleTapToStart has called play() *)
(* on every audio element to unlock it; the promises settle while target    *)
(* events and the mute button are handled.                                  *)

InitUnlock ==
    /\ InitEmoji
    /\ state = NewState
    /\ isDetected = [t \in Targets |-> FALSE]
    /\ audioElements = handleTapToStart(NewAudioElements)
    /\ eventLog = << >>

\* The unlock promise of element t is fulfilled: audio.pause();
\* audio.currentTime = 0.
UnlockResolved(t) ==
    /\ audioElements[t].unlock
    /\ audioElements' = [audioElements EXCEPT ![t].unlock = FALSE,
                                              ![t].paused = TRUE]
    /\ UNCHANGED <<state, isDetected, eventLog, emojiVars>>

\* The unlock promise is rejected and the empty catch handler does nothing:
\* the element does not play, unless a later play() of playAudioForTarget is
\* still unsettled and decides.
UnlockRejected(t) ==
    /\ audioElements[t].unlock
    /\ audioElements' = [audioElements EXCEPT
                            ![t].unlock = FALSE,
                            ![t].paused = IF audioElements[t].pending > 0 THEN @ ELSE TRUE]
    /\ UNCHANGED <<state, isDetected, eventLog, emojiVars>>

SpecUnlockNext ==
    \/ \E t \in Targets : Len(eventLog) < MaxUnlockEvents /\ HandleTargetFound(t)
    \/ \E t \in Targets : Len(eventLog) < MaxUnlockEvents /\ HandleTargetLost(t)
    \/ Len(eventLog) < MaxUnlockEvents /\ HandleToggleMute
    \/ \E t \in Targets : AudioPlayResolved(t)
    \/ \E t \in Targets : AudioPlayRejected(t)
    \/ \E t \in Targets : UnlockResolved(t)
    \/ \E t \in Targets : UnlockRejected(t)

SpecUnlock == InitUnlock /\ [][SpecUnlockNext]_vars

----------------------------------------------------------------------------
(* The detection loop with its await: an iteration runs from the           *)
(* requestAnimationFrame callback up to `await modelAdapter.predict(...)`,  *)
(* and from the resolution of that promise to the requestAnimationFrame at  *)
(* the end of the function.  In mock mode an iteration has no await.  The   *)
(* throttle (shouldDetect false) makes an iteration a no-op that only       *)
(* reschedules itself; such iterations are stuttering steps.                *)

LoopInputs == { << >>, <<Pred(Smile)>> }

detectionLoopSampleReschedules(l, predictions) ==
    [l EXCEPT !.awaiting = Append(@, predictions),
              !.sampled = Append(@, predictions)]

\* The callback runs (one scheduled callback consumed), draws the frame and
\* suspends at the await; predictions is what predict will resolve with.
detectionLoopSample(l, predictions) ==
    [l EXCEPT !.scheduled = @ - 1,
              !.awaiting = Append(@, predictions),
              !.sampled = Append(@, predictions)]

\* The i-th suspended iteration continues to the end of the function, where
\* it schedules the next callback.
detectionLoopResume(l, i) ==
    [l EXCEPT !.awaiting = SubSeq(@, 1, i - 1) \o SubSeq(@, i + 1, Len(@)),
              !.scheduled = @ + 1]

\* startApp has reached startDetection: isDetecting is true and the first
\* call of detectionLoop is due.  MOCK_MODE is true from the configuration
\* (the dropdown listeners are then registered) or was set by a camera
\* error (no listeners).
InitLoop ==
    /\ detectionState = NewDetectionState
    /\ stateChanged = FALSE
    /\ observed = << >>
    /\ musicPlayer = NewMusicPlayer
    /\ COMBO_PLAYLISTS = ShippedPlaylists
    /\ mockA = EmptyString
    /\ mockB = EmptyString
    /\ callRet = [fn |-> "none", val |-> Null]
    /\ \E mode \in {<<FALSE, FALSE>>, <<TRUE, TRUE>>, <<TRUE, FALSE>>} :
          loop = [NewLoopControl EXCEPT !.isDetecting = TRUE, !.scheduled = 1,
                                        !.MOCK_MODE = mode[1],
                                        !.mockListeners = mode[2]]
    /\ scanner = NewScanner
    /\ InitAR

LoopSample(predictions) ==
    /\ loop.isDetecting
    /\ loop.scheduled > 0
    /\ ~loop.MOCK_MODE
    /\ Len(loop.sampled) < MaxLoopFrames
    /\ Len(loop.awaiting) < MaxInFlight
    /\ loop' = detectionLoopSample(loop, predictions)
    /\ UNCHANGED <<detectionState, stateChanged, observed, musicPlayer,
                   COMBO_PLAYLISTS, mockA, mockB, callRet, scanner, arVars>>

LoopResume(i) ==
    /\ i \in 1..Len(loop.awaiting)
    /\ LET l == LoopStep([ds |-> detectionState, mp |-> musicPlayer,
                          changed |-> stateChanged], loop.awaiting[i])
       IN /\ detectionState' = l.ds
          /\ stateChanged' = l.changed
          /\ musicPlayer' = l.mp
    /\ observed' = Append(observed, loop.awaiting[i])
    /\ loop' = detectionLoopResume(loop, i)
    /\ UNCHANGED <<COMBO_PLAYLISTS, mockA, mockB, callRet, scanner, arVars>>

\* One iteration in mock mode: the dropdown values, '' read as null, give the
\* key handed to switchPlaylist.
MockTick ==
    /\ loop.isDetecting
    /\ loop.scheduled > 0
    /\ loop.MOCK_MODE
    /\ musicPlayer' = switchPlaylist(Begin(musicPlayer),
                           getComboKeyFromEmojis(OrNull(mockA), OrNull(mockB)))
    /\ loop' = [loop EXCEPT !.lastMock = << <<mockA, mockB>> >>]
    /\ UNCHANGED <<detectionState, stateChanged, observed, COMBO_PLAYLISTS,
                   mockA, mockB, callRet, scanner, arVars>>

\* The user picks emoji in dropdown A or B; with the listeners registered
\* handleMockEmojiChange(side, emoji) runs.
MockEmojiChange(side, emoji) ==
    /\ loop.MOCK_MODE
    /\ IF side = "A" THEN mockA' = emoji /\ mockB' = mockB
                     ELSE mockB' = emoji /\ mockA' = mockA
    /\ IF loop.mockListeners
       THEN LET emojiA == IF side = "A" THEN emoji ELSE OrNull(mockA)
                emojiB == IF side = "B" THEN emoji ELSE OrNull(mockB)
            IN musicPlayer' = switchPlaylist(Begin(musicPlayer),
                                  getComboKeyFromEmojis(emojiA, emojiB))
       ELSE musicPlayer' = musicPlayer
    /\ UNCHANGED <<detectionState, stateChanged, observed, COMBO_PLAYLISTS,
                   callRet, pageVars, arVars>>

SpecLoopNext ==
    \/ \E predictions \in LoopInputs : LoopSample(predictions)
    \/ \E i \in 1..MaxInFlight : LoopResume(i)
    \/ MockTick
    \/ \E side \in {"A", "B"}, emoji \in MockValues : MockEmojiChange(side, emoji)
    \/ TogglePlayPause
    \/ PlayResolved
    \/ PlayRejected

SpecLoop == InitLoop /\ [][SpecLoopNext]_vars

----------------------------------------------------------------------------
(* The redirect scanner page.  setInterval starts runInference every        *)
(* INFERENCE_INTERVAL ms whether or not the previous call has finished, so  *)
(* several calls can be suspended at `await model.predict(roiCanvas)`; each *)
(* continues when its promise resolves.  sessionStorage outlives the        *)
(* document; the module variables, the interval and the timers do not.      *)

REDIRECTS ==
    [ emoji_fire |-> "https://example.com/fire",
      emoji_heart |-> "https://example.com/heart",
      emoji_check |-> "https://example.com/check" ]

\* 0.85, probabilities being counted in hundredths.
CONFIDENCE_THRESHOLD == 85

REQUIRED_CONSECUTIVE_FRAMES == 8

Class(c, p) == [className |-> c, probability |-> p]

\* What model.predict resolves to: one entry per class.  Nothing in the
\* scanner sorts the array, and the order in which the library returns the
\* classes is not fixed by this repository: the highest probability may be
\* in the first entry or in a later one.
ScanResults ==
    { <<Class("emoji_fire", 95), Class("emoji_heart", 5)>>,
      <<Class("emoji_heart", 95), Class("emoji_fire", 5)>>,
      <<Class("emoji_fire", 5), Class("emoji_heart", 95)>>,
      <<Class("emoji_fire", 60), Class("emoji_heart", 40)>>,
      <<Class("background", 95), Class("emoji_fire", 5)>> }

SteadyResult == <<Class("emoji_fire", 95), Class("emoji_heart", 5)>>

\* History: the last REQUIRED_CONSECUTIVE_FRAMES results processed.
RecentFrames(sc) ==
    SubSeq(sc.processed,
           IF Len(sc.processed) > REQUIRED_CONSECUTIVE_FRAMES
           THEN Len(sc.processed) - REQUIRED_CONSECUTIVE_FRAMES + 1 ELSE 1,
           Len(sc.processed))

handleRedirectNoFlagCheck(sc, label) ==
    IF label \notin DOMAIN REDIRECTS THEN sc
    ELSE [sc EXCEPT !.redirected = TRUE,
                    !.stream = FALSE,
                    !.inferenceInterval = FALSE,
                    !.timers = @ + 1,
                    !.scheduledRedirects =
                        Append(@, [url |-> REDIRECTS[label], recent |-> RecentFrames(sc)])]

\* handleRedirect: no URL, or the session's flag already set: nothing.  Else
\* set the flag, stop the camera, clear the interval and start the timer
\* that navigates.
handleRedirect(sc, label) ==
    IF label \notin DOMAIN REDIRECTS THEN sc
    ELSE IF sc.redirected THEN sc
    ELSE [sc EXCEPT !.redirected = TRUE,
                    !.stream = FALSE,
                    !.inferenceInterval = FALSE,
                    !.timers = @ + 1,
                    !.scheduledRedirects =
                        Append(@, [url |-> REDIRECTS[label], recent |-> RecentFrames(sc)])]

\* runInference from the resolution of model.predict: prediction[0] is taken
\* as the top prediction.
runInference(sc, prediction) ==
    LET topPrediction == prediction[1]
        sc0 == [sc EXCEPT !.processed = Append(@, prediction), !.frames = @ + 1]
    IN IF topPrediction.className \in DOMAIN REDIRECTS
          /\ topPrediction.probability >= CONFIDENCE_THRESHOLD
       THEN LET sc1 == IF topPrediction.className = sc0.lastPredictedLabel
                       THEN [sc0 EXCEPT !.consecutiveMatches = @ + 1]
                       ELSE [sc0 EXCEPT !.consecutiveMatches = 1,
                                        !.lastPredictedLabel = topPrediction.className]
            IN IF sc1.consecutiveMatches >= REQUIRED_CONSECUTIVE_FRAMES
               THEN handleRedirect(sc1, topPrediction.className)
               ELSE sc1
       ELSE [sc0 EXCEPT !.consecutiveMatches = 0, !.lastPredictedLabel = NO_LABEL]

\* The DOMContentLoaded handler of a new document of the scanner page: with
\* the flag set it shows the error and returns; else it loads the model,
\* starts the camera and the inference loop.
loadPage(sc) ==
    LET fresh == [NewScanner EXCEPT !.loaded = TRUE,
                                    !.redirected = sc.redirected,
                                    !.scheduledRedirects = sc.scheduledRedirects,
                                    !.frames = sc.frames,
                                    !.loads = sc.loads + 1]
    IN IF sc.redirected THEN fresh
       ELSE [fresh EXCEPT !.stream = TRUE, !.inferenceInterval = TRUE]

RECURSIVE RunScanner(_, _)
RunScanner(sc, n) ==
    IF n = 0 THEN sc
    ELSE LET before == RunScanner(sc, n - 1)
         IN runInference(before, SteadyResult)

\* The page loaded in a fresh session, scanning, after six frames that all
\* showed emoji_fire with probability 0.95.
InitScanner ==
    /\ detectionState = NewDetectionState
    /\ stateChanged = FALSE
    /\ observed = << >>
    /\ musicPlayer = NewMusicPlayer
    /\ COMBO_PLAYLISTS = ShippedPlaylists
    /\ mockA = EmptyString
    /\ mockB = EmptyString
    /\ callRet = [fn |-> "none", val |-> Null]
    /\ loop = NewLoopControl
    /\ scanner = [RunScanner(loadPage(NewScanner), 6) EXCEPT !.loads = 0]
    /\ InitAR

ScannerFrame == UNCHANGED <<detectionState, stateChanged, observed, musicPlayer,
                            COMBO_PLAYLISTS, mockA, mockB, callRet, loop, arVars>>

\* The interval fires: a call of runInference runs up to its await.
IntervalTick ==
    /\ scanner.inferenceInterval
    /\ scanner.inFlight < MaxInFlight
    /\ scanner.frames + scanner.inFlight < MaxScanFrames
    /\ scanner' = [scanner EXCEPT !.inFlight = @ + 1]
    /\ ScannerFrame

\* The promise of one suspended call resolves with prediction.
InferenceDone(prediction) ==
    /\ scanner.inFlight > 0
    /\ scanner' = runInference([scanner EXCEPT !.inFlight = @ - 1], prediction)
    /\ ScannerFrame

\* The 500 ms timer set by handleRedirect fires: the browser leaves the page.
RedirectTimer ==
    /\ scanner.timers > 0
    /\ scanner' = [scanner EXCEPT !.timers = 0,
                                  !.inFlight = 0,
                                  !.loaded = FALSE,
                                  !.location = scanner.scheduledRedirects[Len(scanner.scheduledRedirects)].url]
    /\ ScannerFrame

\* The user reloads the scanner page or comes back to it in the same tab.
PageLoad ==
    /\ scanner.loads < MaxLoads
    /\ scanner' = loadPage(scanner)
    /\ ScannerFrame

SpecScannerNext ==
    \/ IntervalTick
    \/ \E prediction \in ScanResults : InferenceDone(prediction)
    \/ RedirectTimer
    \/ PageLoad

SpecScanner == InitScanner /\ [][SpecScannerNext]_vars

----------------------------------------------------------------------------
(* Properties                                                              *)

Range(w) == {w[i] : i \in 1..Len(w)}

Count(v, w) == Cardinality({i \in 1..Len(w) : w[i] = v})

SwappedSlots(ds) == [ds EXCEPT !.emojiA = ds.emojiB, !.emojiB = ds.emojiA]

\* s precedes or equals t in lexicographic order of code units: s is a prefix
\* of t, or s is smaller at the first position where they differ.
LexLeq(s, t) ==
    \/ Len(s) <= Len(t) /\ \A i \in 1..Len(s) : s[i] = t[i]
    \/ \E i \in 1..Min(Len(s), Len(t)) :
          /\ s[i] < t[i]
          /\ \A j \in 1..(i - 1) : s[j] = t[j]

\* C1: the combo key does not depend on which slot holds which value: the key
\* returned for (slot A, slot B) is the key of the swapped pair, nulls
\* included, for getComboKey and for getComboKeyFromEmojis.
C1_OrderIndependence ==
    /\ callRet.fn = "getComboKey"
          => callRet.val = getComboKey(SwappedSlots(detectionState))
    /\ callRet.fn = "getComboKeyFromEmojis"
          => callRet.val = getComboKeyFromEmojis(OrNull(mockB), OrNull(mockA))

C1_Witness ==
    /\ callRet.fn = "getComboKey"
    /\ detectionState.emojiA # Null
    /\ detectionState.emojiB # Null
    /\ StrLess(detectionState.emojiB, detectionState.emojiA)
    /\ callRet.val = detectionState.emojiB \o <<PIPE>> \o detectionState.emojiA

\* C2: the key returned by getComboKey is 'DEFAULT' with no stable slot,
\* 's|<em dash>' with one stable symbol s in either slot, and
\* '<lesser>|<greater>' in ascending lexicographic order with two.
C2_KeyByCount ==
    callRet.fn = "getComboKey" =>
        LET a == detectionState.emojiA
            b == detectionState.emojiB
        IN /\ (a = Null /\ b = Null) => callRet.val = <<68, 69, 70, 65, 85, 76, 84>>
           /\ (a # Null /\ b = Null) => callRet.val = a \o <<124, 8212>>
           /\ (a = Null /\ b # Null) => callRet.val = b \o <<124, 8212>>
           /\ (a # Null /\ b # Null) =>
                 \E lesser \in {a, b}, greater \in {a, b} :
                    /\ {lesser, greater} = {a, b}
                    /\ LexLeq(lesser, greater)
                    /\ callRet.val = lesser \o <<124>> \o greater

C2_Witness ==
    /\ callRet.fn = "getComboKey"
    /\ detectionState.emojiA = Null
    /\ detectionState.emojiB = Happy
    /\ callRet.val = Happy \o <<124, 8212>>

\* The most frequent non-null value of w when it occurs at least 5 times,
\* null otherwise.
QuorumValue(w) ==
    IF \E v \in Range(w) \ {Null} : Count(v, w) >= 5
    THEN CHOOSE v \in Range(w) \ {Null} :
            /\ Count(v, w) >= 5
            /\ \A u \in Range(w) \ {Null} : Count(u, w) <= Count(v, w)
    ELSE Null

\* C3: over a full window of 8 entries, getStableValue returns, and update
\* stores as the slot's stable value, the most frequent non-null value when
\* it occurs at least 5 times and null otherwise; [X,X,X,X,X,Y,Y,null]
\* gives X and [X,X,X,X,Y,Y,Y,null] gives null.
C3_Quorum ==
    callRet.fn = "getStableValue" =>
        LET w == detectionState.smoothingBuffer.emojiA
        IN /\ Len(w) = 8
           /\ callRet.val = QuorumValue(w)
           /\ detectionState.emojiA = QuorumValue(w)
           /\ \A X \in {Smile, Devil}, Y \in {Smile, Devil} :
                 X # Y =>
                    /\ w = <<X, X, X, X, X, Y, Y, Null>> => callRet.val = X
                    /\ w = <<X, X, X, X, Y, Y, Y, Null>> => callRet.val = Null

C3_Witness ==
    /\ callRet.fn = "getStableValue"
    /\ detectionState.smoothingBuffer.emojiA
          = <<Smile, Smile, Smile, Smile, Smile, Devil, Devil, Null>>
    /\ callRet.val = Smile
    /\ detectionState.emojiA = Smile

\* The label a tick contributes to a slot: the label ranked at that position,
\* none (null) when the tick has no such entry.
SlotObs(predictions, slot) ==
    IF slot <= Len(predictions) THEN predictions[slot].label ELSE Null

\* The last min(k, 8) observations of a slot among the k ticks of obs.
LastObserved(obs, slot) ==
    LET k == Len(obs)
        n == Min(k, 8)
    IN [i \in 1..n |-> SlotObs(obs[k - n + i], slot)]

\* C4: after any sequence of update calls each window holds at most 8
\* entries, both windows have the same length, and each window is exactly
\* the most recent min(k, 8) observations of its slot in arrival order.
C4_WindowFifo ==
    LET bufA == detectionState.smoothingBuffer.emojiA
        bufB == detectionState.smoothingBuffer.emojiB
    IN /\ Len(bufA) <= 8
       /\ Len(bufA) = Len(bufB)
       /\ bufA = LastObserved(observed, 1)
       /\ bufB = LastObserved(observed, 2)

C4_Witness ==
    /\ Len(observed) = 9
    /\ SlotObs(observed[1], 1) = Null
    /\ SlotObs(observed[2], 1) = Smile
    /\ SlotObs(observed[9], 2) = Devil
    /\ detectionState.smoothingBuffer.emojiA[1] = Smile
    /\ detectionState.smoothingBuffer.emojiB[8] = Devil
    /\ Len(detectionState.smoothingBuffer.emojiA) = 8

\* Slot's stable value in the DetectionState ds.
StableOf(ds, slot) == IF slot = 1 THEN ds.emojiA ELSE ds.emojiB

\* After tick i of obs the window of slot was full of X.
FullOf(obs, slot, i, X) ==
    /\ i >= 8
    /\ \A j \in (i - 7)..i : SlotObs(obs[j], slot) = X

\* How many of the 8 observations of slot up to tick j differ from X.
Differing(obs, slot, j, X) ==
    Cardinality({l \in (j - 7)..j : SlotObs(obs[l], slot) # X})

\* The ticks after i, up to the last one of obs, are a run in which at most
\* 3 of the last 8 observations of slot differ from X, begun with the window
\* full of X.
FlickerRun(obs, slot, i, X) ==
    /\ i < Len(obs)
    /\ FullOf(obs, slot, i, X)
    /\ \A j \in (i + 1)..Len(obs) : Differing(obs, slot, j, X) <= 3

NothingSent(m) == m.audio.sent = << >>

\* C5 as stated: during such a run the slot's stable value stays X, update
\* reports no change and nothing is switched.
C5_FlickerAsStated ==
    \A slot \in {1, 2}, X \in {Smile, Devil}, i \in 8..Len(observed) :
        FlickerRun(observed, slot, i, X) =>
            /\ StableOf(detectionState, slot) = X
            /\ ~stateChanged
            /\ NothingSent(musicPlayer)

\* C5, amended: during such a run the slot's stable value stays X; for the
\* ticks of the run that leave the other slot's stable value unchanged too,
\* update reports no change and the player is not touched.
C5_Flicker ==
    [][ \A slot \in {1, 2}, X \in {Smile, Devil}, i \in 8..Len(observed') :
            FlickerRun(observed', slot, i, X) =>
                /\ StableOf(detectionState', slot) = X
                /\ StableOf(detectionState', 3 - slot) = StableOf(detectionState, 3 - slot)
                      => /\ ~stateChanged'
                         /\ NothingSent(musicPlayer')
                         /\ musicPlayer'.currentCombo = musicPlayer.currentCombo
                         /\ musicPlayer'.currentTrackIndex = musicPlayer.currentTrackIndex
      ]_vars

\* Three of the last eight observations of slot A are none, after a full
\* window of Smile, and Smile is still the stable value.
C5_Witness ==
    /\ Len(observed) = 11
    /\ FlickerRun(observed, 1, 8, Smile)
    /\ Differing(observed, 1, 11, Smile) = 3
    /\ detectionState.emojiA = Smile
    /\ ~stateChanged

\* C6: switchPlaylist with the session's current combo key changes nothing
\* of the player and sends nothing to the audio element.
C6_Continuity ==
    [][ \A comboKey \in Keys :
            (SwitchPlaylist(comboKey) /\ comboKey = musicPlayer.currentCombo) =>
                /\ musicPlayer'.currentPlaylist = musicPlayer.currentPlaylist
                /\ musicPlayer'.currentTrackIndex = musicPlayer.currentTrackIndex
                /\ musicPlayer'.isPlaying = musicPlayer.isPlaying
                /\ musicPlayer'.audio.src = musicPlayer.audio.src
                /\ musicPlayer'.audio.paused = musicPlayer.audio.paused
                /\ NothingSent(musicPlayer')
      ]_vars

\* A session that plays the second track of the playlist of its key, in
\* which the last handler sent nothing.
C6_Witness ==
    /\ musicPlayer.currentCombo \in Keys
    /\ musicPlayer.isPlaying
    /\ ~musicPlayer.audio.paused
    /\ musicPlayer.currentTrackIndex = 1
    /\ NothingSent(musicPlayer)

Symbols == {Smile, Devil, Happy, Sad, Chill, <<8212>>}

\* C7: when the table has no entry for 'B|A' and a non-empty one for 'A|B',
\* the session whose key is 'B|A' has the 'A|B' playlist as current playlist.
C7_ReversedLookup ==
    \A A \in Symbols, B \in Symbols :
        LET requested == B \o <<124>> \o A
            sorted == A \o <<124>> \o B
        IN ( /\ musicPlayer.currentCombo = requested
             /\ requested \notin DOMAIN COMBO_PLAYLISTS
             /\ sorted \in DOMAIN COMBO_PLAYLISTS
             /\ COMBO_PLAYLISTS[sorted] # << >> )
           => musicPlayer.currentPlaylist = COMBO_PLAYLISTS[sorted]

C7_Witness ==
    /\ COMBO_PLAYLISTS = LabelPlaylists
    /\ musicPlayer.currentCombo = Sad \o <<124>> \o Happy
    /\ musicPlayer.currentPlaylist = LabelPlaylists[Happy \o <<124>> \o Sad]
    /\ musicPlayer.currentTrackIndex = 0

\* The lists the table holds for a key: its exact entry, or else the entry
\* of the key with its two components exchanged.
EntriesFor(key) ==
    IF key \in DOMAIN COMBO_PLAYLISTS THEN {COMBO_PLAYLISTS[key]}
    ELSE { COMBO_PLAYLISTS[B \o <<124>> \o A] :
              <<A, B>> \in { ab \in Symbols \X Symbols :
                               /\ key = ab[1] \o <<124>> \o ab[2]
                               /\ (ab[2] \o <<124>> \o ab[1]) \in DOMAIN COMBO_PLAYLISTS } }

\* C8: the session's playlist is the DEFAULT playlist whenever its key has
\* neither an exact nor a swapped entry, or the entry found is the empty list.
C8_DefaultFallback ==
    ( /\ musicPlayer.currentCombo \in Keys
      /\ DEFAULT \in DOMAIN COMBO_PLAYLISTS
      /\ EntriesFor(musicPlayer.currentCombo) \subseteq {<< >>} )
    => musicPlayer.currentPlaylist = COMBO_PLAYLISTS[DEFAULT]

C8_Witness ==
    /\ COMBO_PLAYLISTS = EmptyPairPlaylists
    /\ musicPlayer.currentCombo = Happy \o <<124>> \o Sad
    /\ musicPlayer.currentPlaylist = EmptyPairPlaylists[DEFAULT]
    /\ musicPlayer.currentTrackIndex = 0

C10_LastClaimedWins ==
    /\ \A i \in 1..Len(eventLog) :
          (eventLog[i].ev = "found" /\ ~eventLog[i].muted)
             => eventLog[i].owner = eventLog[i].target
    /\ \A i \in 2..(Len(eventLog) - 2) :
          ( /\ eventLog[i - 1].active = {}
            /\ ~eventLog[i - 1].muted
            /\ <<eventLog[i].ev, eventLog[i].target>> = <<"found", 0>>
            /\ <<eventLog[i + 1].ev, eventLog[i + 1].target>> = <<"found", 1>>
            /\ <<eventLog[i + 2].ev, eventLog[i + 2].target>> = <<"lost", 1>> )
          => <<eventLog[i].owner, eventLog[i + 1].owner, eventLog[i + 2].owner>> = <<0, 1, 0>>

C10_Witness ==
    /\ Len(eventLog) = 4
    /\ eventLog[1].ev = "mute"
    /\ <<eventLog[2].ev, eventLog[2].target>> = <<"found", 0>>
    /\ <<eventLog[3].ev, eventLog[3].target>> = <<"found", 1>>
    /\ <<eventLog[4].ev, eventLog[4].target>> = <<"lost", 1>>
    /\ <<eventLog[2].owner, eventLog[3].owner, eventLog[4].owner>> = <<0, 1, 0>>
    /\ state.currentAudioIndex = 0
    /\ ~audioElements[0].paused

\* The owner and the mute flag before event i of the log.
PrevOwner(i) == IF i = 1 THEN NULL_INDEX ELSE eventLog[i - 1].owner

PrevMuted(i) == IF i = 1 THEN TRUE ELSE eventLog[i - 1].muted

LowestOf(S) == CHOOSE t \in S : \A u \in S : t <= u

\* The owner is lost by event i while two or more other targets remain.
OwnerLostOthersRemain(i) ==
    /\ eventLog[i].ev = "lost"
    /\ eventLog[i].target = PrevOwner(i)
    /\ Cardinality(eventLog[i].active) >= 2

C12_OwnerIffActive ==
    /\ \A i \in 1..Len(eventLog) :
          (eventLog[i].ev \in {"found", "lost"} /\ ~eventLog[i].muted) =>
              /\ eventLog[i].owner = NULL_INDEX <=> eventLog[i].active = {}
              /\ eventLog[i].owner # NULL_INDEX => eventLog[i].owner \in eventLog[i].active
    /\ state.detectedTargets = << >> => \A t \in Targets : audioElements[t].paused

\* Two targets found, then the owner lost (the other takes over), then the
\* last one lost: the channel is released and its audio paused.
C12_Witness ==
    /\ Len(eventLog) = 5
    /\ ~eventLog[1].muted
    /\ <<eventLog[2].ev, eventLog[3].ev, eventLog[4].ev, eventLog[5].ev>>
          = <<"found", "found", "lost", "lost">>
    /\ eventLog[4].target = eventLog[3].owner
    /\ eventLog[4].owner = eventLog[2].target
    /\ eventLog[5].active = {}
    /\ eventLog[5].owner = NULL_INDEX
    /\ eventLog[5].sent = <<<<"pause", eventLog[4].owner>>>>
    /\ state.currentAudioIndex = NULL_INDEX

\* C13: a lost event of a target that is not the owner leaves the owner as
\* it was and gives no command (pause, play from the start) to any audio
\* element.
C13_NonOwnerLost ==
    \A i \in 1..Len(eventLog) :
        (eventLog[i].ev = "lost" /\ eventLog[i].target # PrevOwner(i)) =>
            /\ eventLog[i].owner = PrevOwner(i)
            /\ eventLog[i].sent = << >>

\* Three targets detected with owner 2; target 0, found first, is lost.
C13_Witness ==
    /\ Len(eventLog) = 5
    /\ eventLog[5].ev = "lost"
    /\ eventLog[5].target = 0
    /\ eventLog[4].order = <<0, 1, 2>>
    /\ eventLog[4].owner = 2
    /\ eventLog[5].owner = 2
    /\ eventLog[5].sent = << >>
    /\ ~audioElements[2].paused

\* C14: whenever two or more targets are detected and audio is unmuted, the
\* owner is the most recently found of the detected targets.
C14_OwnerMostRecentlyFound ==
    \A i \in 1..Len(eventLog) :
        (~eventLog[i].muted /\ Cardinality(eventLog[i].active) >= 2) =>
            eventLog[i].owner = eventLog[i].order[Len(eventLog[i].order)]

\* The source the audio element reports after the first track of the
\* player's playlist has been loaded.
FirstTrackLoaded(m) ==
    /\ m.currentTrackIndex = 0
    /\ m.audio.src = "https://host/" \o m.currentPlaylist[1].src
    /\ m.audio.paused

\* The ticks of obs in which slot A observed label X.
TicksWith(obs, X) == {i \in 1..Len(obs) : SlotObs(obs[i], 1) = X}

\* C15: a change of the combo key while nothing is playing, to a non-empty
\* playlist, loads the first track, leaves isPlaying false and asks the audio
\* element for nothing but the load; isPlaying becomes true only when a
\* play() request is settled.  After 8 ticks of which 6 ranked 'Happy' first
\* and none had a second entry, the key is 'Happy|<em dash>', the first
\* 'Happy' track is loaded and nothing plays.
C15_LoadWithoutAutoPlay ==
    [][ /\ ( /\ musicPlayer'.currentCombo # musicPlayer.currentCombo
             /\ ~musicPlayer.isPlaying
             /\ musicPlayer'.currentPlaylist # << >> )
           => /\ FirstTrackLoaded(musicPlayer')
              /\ musicPlayer'.audio.sent = << <<"src", musicPlayer'.currentPlaylist[1].src>> >>
              /\ ~musicPlayer'.isPlaying
              /\ musicPlayer'.pending = musicPlayer.pending
        /\ (musicPlayer'.isPlaying /\ ~musicPlayer.isPlaying)
           => /\ musicPlayer.pending # << >>
              /\ musicPlayer'.pending = Tail(musicPlayer.pending)
        /\ ( /\ Len(observed') = 8
             /\ Len(observed) = 7
             /\ Cardinality(TicksWith(observed', Happy)) = 6 )
           => /\ musicPlayer'.currentCombo = Happy \o <<124, 8212>>
              /\ musicPlayer'.currentPlaylist = LabelPlaylists[Happy \o <<124, 8212>>]
              /\ FirstTrackLoaded(musicPlayer')
              /\ musicPlayer'.audio.src = "https://host/./assets/audio/happy-1.mp3"
              /\ ~musicPlayer'.isPlaying
              /\ musicPlayer'.pending = << >>
      ]_vars

C15_Witness ==
    /\ Len(observed) = 8
    /\ Cardinality(TicksWith(observed, Happy)) = 6
    /\ detectionState.emojiA = Happy
    /\ detectionState.emojiB = Null
    /\ musicPlayer.currentCombo = Happy \o <<124, 8212>>
    /\ musicPlayer.currentTrackIndex = 0
    /\ musicPlayer.audio.sent = << <<"src", "./assets/audio/happy-1.mp3">> >>
    /\ ~musicPlayer.isPlaying

\* C16: a change of the combo key while a track is playing, to a non-empty
\* playlist, first pauses the audio element, then makes the first track of
\* the new playlist the current one, with its source loaded.
C16_SwitchWhilePlaying ==
    [][ \A comboKey \in Keys :
            ( /\ SwitchPlaylist(comboKey)
              /\ comboKey # musicPlayer.currentCombo
              /\ musicPlayer.isPlaying
              /\ ResolvePlaylist(comboKey) # << >> )
            => /\ Len(musicPlayer'.audio.sent) >= 2
               /\ musicPlayer'.audio.sent[1] = <<"pause">>
               /\ musicPlayer'.audio.sent[2] = <<"src", ResolvePlaylist(comboKey)[1].src>>
               /\ musicPlayer'.currentPlaylist = ResolvePlaylist(comboKey)
               /\ musicPlayer'.currentCombo = comboKey
               /\ FirstTrackLoaded(musicPlayer')
      ]_vars

\* The session was playing the second track of 'Happy|<em dash>' and its key
\* changed to 'Happy|Sad': paused, first track of the new playlist loaded.
C16_Witness ==
    /\ COMBO_PLAYLISTS = LabelPlaylists
    /\ musicPlayer.currentCombo = Happy \o <<124>> \o Sad
    /\ musicPlayer.currentTrackIndex = 0
    /\ Len(musicPlayer.audio.sent) >= 2
    /\ musicPlayer.audio.sent[1] = <<"pause">>
    /\ musicPlayer.audio.sent[2] = <<"src", "./assets/audio/track-a.mp3">>
    /\ musicPlayer.audio.src = "https://host/./assets/audio/track-a.mp3"

\* n calls of next.
RECURSIVE NextTimes(_, _)
NextTimes(m, n) == IF n = 0 THEN m ELSE next(NextTimes(m, n - 1))

\* C17: with a playlist of length L > 0 and index i in 0..L-1, the next
\* button gives (i + 1) mod L and the prev button (i - 1) mod L; prev after
\* next, next after prev and L times next give i again; with an empty
\* playlist both leave the player as it is.
C17_ModularAdvance ==
    [][ LET L == Len(musicPlayer.currentPlaylist)
            i == musicPlayer.currentTrackIndex
            m == Begin(musicPlayer)
        IN /\ (L > 0 /\ i \in 0..(L - 1)) =>
                 /\ NextTrack => musicPlayer'.currentTrackIndex = (i + 1) % L
                 /\ PrevTrack => musicPlayer'.currentTrackIndex = (i + L - 1) % L
                 /\ prev(next(m)).currentTrackIndex = i
                 /\ next(prev(m)).currentTrackIndex = i
                 /\ NextTimes(m, L).currentTrackIndex = i
           /\ L = 0 =>
                 /\ next(m) = m
                 /\ prev(m) = m
                 /\ (NextTrack \/ PrevTrack) =>
                       /\ musicPlayer'.currentTrackIndex = i
                       /\ musicPlayer'.currentPlaylist = << >>
                       /\ musicPlayer'.audio.sent = << >>
      ]_vars

\* The prev button was pressed on the first of three tracks: the third is
\* the current track.
C17_Witness ==
    /\ Len(musicPlayer.currentPlaylist) = 3
    /\ musicPlayer.currentTrackIndex = 2
    /\ musicPlayer.audio.sent = << <<"src", "./assets/audio/happy-3.mp3">> >>
    /\ ~musicPlayer.isPlaying
    /\ musicPlayer.pending = << >>

\* C19: when the key resolves to no playlist (no entry, and 'DEFAULT' missing
\* or empty), switchPlaylist leaves currentTrackIndex = -1 and isPlaying
\* false, also when a track was playing, and the audio element paused unless
\* a play() request is still unsettled; play, next and prev on an empty
\* playlist change nothing and give the audio element no command.
C19_SilentWhenEmpty ==
    [][ /\ \A comboKey \in Keys :
              ( /\ SwitchPlaylist(comboKey)
                /\ comboKey # musicPlayer.currentCombo
                /\ ResolvePlaylist(comboKey) = << >> )
              => /\ musicPlayer'.currentPlaylist = << >>
                 /\ musicPlayer'.currentTrackIndex = -1
                 /\ ~musicPlayer'.isPlaying
                 /\ musicPlayer'.currentCombo = comboKey
                 /\ musicPlayer.pending = << >> => musicPlayer'.audio.paused
                 /\ musicPlayer'.audio.sent =
                       IF musicPlayer.isPlaying THEN << <<"pause">> >> ELSE << >>
        /\ musicPlayer.currentPlaylist = << >> =>
              LET m == Begin(musicPlayer)
              IN /\ play(m) = m
                 /\ next(m) = m
                 /\ prev(m) = m
      ]_vars

\* A playing session whose key changed to one that resolves to nothing.
C19_Witness ==
    /\ COMBO_PLAYLISTS \in {NoDefaultPlaylists, EmptyDefaultPlaylists}
    /\ musicPlayer.currentCombo # Null
    /\ musicPlayer.currentPlaylist = << >>
    /\ musicPlayer.currentTrackIndex = -1
    /\ ~musicPlayer.isPlaying
    /\ musicPlayer.audio.sent = << <<"pause">> >>
    /\ musicPlayer.audio.src # ""

\* C18: an 'ended' event moves currentTrackIndex to the next track modulo
\* the playlist length (with an empty playlist there is no track to move to
\* and the index stays) and leaves the playlist and the combo key as they
\* are; when from some point on the only events are track ends (and the
\* settling of the play() requests they make), and track ends keep coming,
\* every track of the playlist is the current track again and again.  (The
\* longest playlist of the tables has three tracks.)
C18_TrackEndLoops ==
    /\ [][ Ended =>
              LET L == Len(musicPlayer.currentPlaylist)
              IN /\ L > 0 => musicPlayer'.currentTrackIndex
                                 = (musicPlayer.currentTrackIndex + 1) % L
                 /\ L = 0 => musicPlayer'.currentTrackIndex = musicPlayer.currentTrackIndex
                 /\ musicPlayer'.currentPlaylist = musicPlayer.currentPlaylist
                 /\ musicPlayer'.currentCombo = musicPlayer.currentCombo
         ]_vars
    /\ (<>[][Ended \/ PlayResolved]_vars /\ []<><<Ended>>_vars)
          => \A j \in 0..2 :
                []<>(j < Len(musicPlayer.currentPlaylist) => musicPlayer.currentTrackIndex = j)

\* The third of three tracks ended while playing: the first is loaded and
\* asked to play.
C18_Witness ==
    /\ Len(musicPlayer.currentPlaylist) = 3
    /\ musicPlayer.currentTrackIndex = 0
    /\ musicPlayer.isPlaying
    /\ musicPlayer.audio.sent = << <<"src", "./assets/audio/happy-1.mp3">>,
                                   <<"src", "./assets/audio/happy-1.mp3">>, <<"play">> >>
    /\ musicPlayer.pending = <<"./assets/audio/happy-1.mp3">>

\* The window of a slot in the DetectionState.
WindowOf(ds, slot) ==
    IF slot = 1 THEN ds.smoothingBuffer.emojiA ELSE ds.smoothingBuffer.emojiB

\* C20 as stated: a value with at least 5 occurrences in the window, full or
\* not, is the slot's stable value; without such a value the slot is null.
C20_PartialWindowAsStated ==
    \A slot \in {1, 2} :
        StableOf(detectionState, slot) = QuorumValue(WindowOf(detectionState, slot))

\* C20, amended: while the window holds fewer than 8 entries both slots are
\* null and update reports no change, whatever the window holds; once it
\* holds 8 entries the slot's stable value is the value with at least 5
\* occurrences, null when there is none.
C20_FullWindowOnly ==
    /\ Len(detectionState.smoothingBuffer.emojiA) < 8 =>
          /\ detectionState.emojiA = Null
          /\ detectionState.emojiB = Null
          /\ ~stateChanged
          /\ musicPlayer.currentCombo = Null
    /\ Len(detectionState.smoothingBuffer.emojiA) = 8 =>
          \A slot \in {1, 2} :
              StableOf(detectionState, slot) = QuorumValue(WindowOf(detectionState, slot))

\* Seven ticks ranked Smile first: seven occurrences in the window, no
\* stable value yet.
C20_Witness ==
    /\ Len(observed) = 7
    /\ detectionState.smoothingBuffer.emojiA
          = <<Smile, Smile, Smile, Smile, Smile, Smile, Smile>>
    /\ detectionState.emojiA = Null
    /\ ~stateChanged

\* The pair of stable values the windows of ds hold: the quorum value of
\* each full window, null for a window that is not full.
StablePair(ds) ==
    [slot \in {1, 2} |->
        IF Len(WindowOf(ds, slot)) = 8 THEN QuorumValue(WindowOf(ds, slot)) ELSE Null]

\* C21: update reports a change for a tick exactly when the pair of stable
\* values after the tick differs from the pair after the previous tick, both
\* as stored in emojiA, emojiB and as determined by the windows; when it
\* reports no change the stored values are as before.
C21_ChangedIffPairDiffers ==
    [][ (observed' # observed) =>
           /\ stateChanged' <=> ( <<detectionState'.emojiA, detectionState'.emojiB>>
                                    # <<detectionState.emojiA, detectionState.emojiB>> )
           /\ stateChanged' <=> StablePair(detectionState') # StablePair(detectionState)
           /\ ~stateChanged' => /\ detectionState'.emojiA = detectionState.emojiA
                                /\ detectionState'.emojiB = detectionState.emojiB
      ]_vars

\* The ninth tick gave slot B its fifth Devil: a change is reported although
\* slot A is as before.
C21_Witness ==
    /\ Len(observed) = 9
    /\ stateChanged
    /\ detectionState.emojiA = Smile
    /\ detectionState.emojiB = Devil
    /\ Count(Devil, detectionState.smoothingBuffer.emojiB) = 5
    /\ SlotObs(observed[1], 2) = Null

\* What the claim says a call of update records in a slot's window: the
\* label of the slot's entry when the entry exists and its label is a
\* non-empty string, none otherwise.
RecordedFor(arg, slot) ==
    IF /\ arg.given = "array"
       /\ Len(arg.items) >= slot
       /\ arg.items[slot] # NullEntry
       /\ arg.items[slot].label \notin {Null, Undefined, EmptyString}
    THEN arg.items[slot].label
    ELSE Null

LastOf(w) == w[Len(w)]

C22_ArraysRecorded ==
    (callRet.fn = "update" /\ callRet.arg.given = "array") =>
        /\ ~callRet.threw
        /\ LastOf(detectionState.smoothingBuffer.emojiA) = RecordedFor(callRet.arg, 1)
        /\ LastOf(detectionState.smoothingBuffer.emojiB) = RecordedFor(callRet.arg, 2)

\* C23: a processed tick of the detection loop sends the audio element a
\* source load, play or pause only when the resolved combo key changes: in
\* the real loop a tick that leaves the pair of stable values unchanged
\* leaves the player untouched, and whatever a tick sends comes with a
\* change reported by update and a new currentCombo equal to getComboKey();
\* in mock mode a tick that finds the dropdowns as the previous tick found
\* them leaves the player untouched, and whatever a tick sends comes with a
\* new currentCombo.
C23_CommandsOnlyOnKeyChange ==
    [][ /\ (\E i \in 1..MaxInFlight : LoopResume(i)) =>
              /\ ~NothingSent(musicPlayer') =>
                    /\ stateChanged'
                    /\ musicPlayer'.currentCombo # musicPlayer.currentCombo
                    /\ musicPlayer'.currentCombo = getComboKey(detectionState')
              /\ StablePair(detectionState') = StablePair(detectionState) =>
                    musicPlayer' = Begin(musicPlayer)
        /\ MockTick =>
              /\ ~NothingSent(musicPlayer') =>
                    musicPlayer'.currentCombo # musicPlayer.currentCombo
              /\ loop.lastMock = << <<mockA, mockB>> >> =>
                    musicPlayer' = Begin(musicPlayer)
      ]_vars

\* Mock mode, both dropdowns set, the pair's track playing, and the last tick
\* saw the same dropdown values: the tick sent nothing.
C23_Witness ==
    /\ loop.MOCK_MODE
    /\ mockA = Smile
    /\ mockB = Devil
    /\ loop.lastMock = << <<Smile, Devil>> >>
    /\ musicPlayer.currentCombo = Smile \o <<PIPE>> \o Devil
    /\ musicPlayer.isPlaying
    /\ ~musicPlayer.audio.paused
    /\ musicPlayer.pending = << >>
    /\ NothingSent(musicPlayer)

\* C25: at most one tick of the detection loop is in flight: while an
\* iteration awaits its prediction no callback is scheduled, an iteration
\* starts only when every earlier one has run update (and switchPlaylist),
\* and the ticks enter the windows in the order they were sampled.
C25_OneTickInFlight ==
    /\ [](/\ Len(loop.awaiting) <= 1
          /\ loop.isDetecting => loop.scheduled + Len(loop.awaiting) = 1
          /\ observed \o loop.awaiting = loop.sampled
          /\ detectionState.frameCount = Len(observed))
    /\ [][ (\E predictions \in LoopInputs : LoopSample(predictions)) =>
              /\ loop.awaiting = << >>
              /\ observed = loop.sampled
              /\ detectionState = RunLoop(NewLoop, loop.sampled, Len(loop.sampled)).ds
         ]_vars

\* The ninth tick is awaiting its prediction; the eighth has made Smile
\* stable and no callback is scheduled.
C25_Witness ==
    /\ Len(loop.awaiting) = 1
    /\ loop.scheduled = 0
    /\ Len(observed) = 8
    /\ Len(loop.sampled) = 9
    /\ detectionState.emojiA = Smile
    /\ stateChanged

\* The priority pointer, the detected set and its insertion order before
\* event i of the log.
PrevPointer(i) == IF i = 1 THEN NULL_INDEX ELSE eventLog[i - 1].pointer

PrevActive(i) == IF i = 1 THEN {} ELSE eventLog[i - 1].active

PrevOrder(i) == IF i = 1 THEN << >> ELSE eventLog[i - 1].order

IsFoundEvent(e) == e.ev \in {"found", "found-ignored"}

\* C28 as stated: every found event, also one for a target that is already
\* detected, sets the priority pointer to the target and (while unmuted)
\* makes it the owner.
C28_PresentAlwaysClaims ==
    \A i \in 1..Len(eventLog) :
        IsFoundEvent(eventLog[i]) =>
            /\ eventLog[i].pointer = eventLog[i].target
            /\ ~eventLog[i].muted => eventLog[i].owner = eventLog[i].target

\* C28, amended: a found event for a target that is not detected sets the
\* priority pointer to the target and, while unmuted, makes it the owner and
\* starts its audio; a found event for a target that is already detected is
\* ignored: pointer, owner, detected set and mute flag stay as they were and
\* nothing is sent to any audio element.
C28_PresentClaimsUnlessDetected ==
    \A i \in 1..Len(eventLog) :
        LET e == eventLog[i]
        IN /\ e.ev = "found" =>
                /\ e.target \notin PrevActive(i)
                /\ e.pointer = e.target
                /\ e.order = Append(PrevOrder(i), e.target)
                /\ ~e.muted => /\ e.owner = e.target
                               /\ e.sent[Len(e.sent)] = <<"play", e.target>>
           /\ e.ev = "found-ignored" =>
                /\ e.target \in PrevActive(i)
                /\ e.pointer = PrevPointer(i)
                /\ e.owner = PrevOwner(i)
                /\ e.order = PrevOrder(i)
                /\ e.muted = PrevMuted(i)
                /\ e.sent = << >>

\* Unmuted, target 0 found, target 1 found (owner 1), then a second found
\* event for target 0: target 1 keeps the channel and the pointer.
C28_Witness ==
    /\ Len(eventLog) = 4
    /\ eventLog[1].ev = "mute"
    /\ <<eventLog[2].ev, eventLog[2].target>> = <<"found", 0>>
    /\ <<eventLog[3].ev, eventLog[3].target>> = <<"found", 1>>
    /\ <<eventLog[4].ev, eventLog[4].target>> = <<"found-ignored", 0>>
    /\ state.currentAudioIndex = 1
    /\ state.lastFoundIndex = 1
    /\ audioElements[0].paused
    /\ ~audioElements[1].paused

\* The target updateAudioPlayback chooses for a non-empty detected set: the
\* only detected target, else the priority pointer if it is detected, else
\* the first of the set in insertion order.
PolicyChoice(order, pointer) ==
    IF Len(order) = 1 THEN order[1]
    ELSE IF pointer # NULL_INDEX /\ \E k \in 1..Len(order) : order[k] = pointer
    THEN pointer
    ELSE order[1]

Plays(e) == \E k \in 1..Len(e.sent) : e.sent[k][1] = "play"

\* C30: muting pauses the owner's audio and clears currentAudioIndex; while
\* muted currentAudioIndex is null and no event starts an audio, yet found
\* and lost events keep updating the detected set and a found event the
\* pointer; unmuting with a non-empty detected set starts the audio of the
\* target the priority policy chooses and makes it the owner, and with an
\* empty set starts nothing.
C30_MuteGating ==
    /\ state.audioMuted => state.currentAudioIndex = NULL_INDEX
    /\ \A i \in 1..Len(eventLog) :
        LET e == eventLog[i]
        IN /\ e.muted => e.owner = NULL_INDEX /\ ~Plays(e)
           /\ (e.ev = "mute" /\ e.muted) =>
                /\ ~PrevMuted(i)
                /\ e.sent = IF PrevOwner(i) # NULL_INDEX
                            THEN << <<"pause", PrevOwner(i)>> >> ELSE << >>
                /\ e.order = PrevOrder(i)
                /\ e.pointer = PrevPointer(i)
           /\ (e.ev = "found" /\ e.muted) =>
                /\ e.order = Append(PrevOrder(i), e.target)
                /\ e.pointer = e.target
                /\ e.sent = << >>
           /\ (e.ev = "lost" /\ e.muted) =>
                /\ e.active = PrevActive(i) \ {e.target}
                /\ e.sent = << >>
           /\ (e.ev = "mute" /\ ~e.muted) =>
                /\ PrevMuted(i)
                /\ e.order = PrevOrder(i)
                /\ IF e.order = << >>
                   THEN e.owner = NULL_INDEX /\ e.sent = << >>
                   ELSE /\ e.owner = PolicyChoice(e.order, PrevPointer(i))
                        /\ e.sent = << <<"play", e.owner>> >>

\* Muted: targets 0 and 1 found; unmuting starts target 1 (the pointer);
\* muting again pauses it and clears the owner; target 2 found while muted.
C30_Witness ==
    /\ Len(eventLog) = 5
    /\ <<eventLog[1].ev, eventLog[1].target, eventLog[1].muted>> = <<"found", 0, TRUE>>
    /\ <<eventLog[2].ev, eventLog[2].target, eventLog[2].muted>> = <<"found", 1, TRUE>>
    /\ <<eventLog[3].ev, eventLog[3].muted, eventLog[3].owner>> = <<"mute", FALSE, 1>>
    /\ <<eventLog[4].ev, eventLog[4].muted, eventLog[4].owner>> = <<"mute", TRUE, NULL_INDEX>>
    /\ eventLog[4].sent = << <<"pause", 1>> >>
    /\ <<eventLog[5].ev, eventLog[5].target>> = <<"found", 2>>
    /\ state.lastFoundIndex = 2
    /\ state.currentAudioIndex = NULL_INDEX
    /\ \A t \in Targets : audioElements[t].paused

\* C24: a rejected play request changes no decision: the rejection of
\* MusicPlayer.play's promise leaves currentCombo, currentPlaylist and
\* currentTrackIndex as switchPlaylist or next set them (and does not set
\* isPlaying), and the rejection of an audio element's promise in CUBE AR
\* leaves the state object, currentAudioIndex included, as it was; both are
\* handled where they occur, so every handler stays available afterwards.
C24_RejectionKeepsDecision ==
    [][ /\ PlayRejected =>
              /\ musicPlayer'.currentCombo = musicPlayer.currentCombo
              /\ musicPlayer'.currentPlaylist = musicPlayer.currentPlaylist
              /\ musicPlayer'.currentTrackIndex = musicPlayer.currentTrackIndex
              /\ musicPlayer'.isPlaying = musicPlayer.isPlaying
              /\ musicPlayer'.audio.src = musicPlayer.audio.src
        /\ \A t \in Targets : AudioPlayRejected(t) =>
              /\ state' = state
              /\ isDetected' = isDetected
      ]_vars

\* The player was playing, next moved to the second track and its play
\* request was rejected: the index stays 1 on a paused element; in CUBE AR
\* target 0 owns the channel although the play request for it was rejected.
C24_Witness ==
    /\ musicPlayer.currentCombo = KeyOf(Happy, <<EM_DASH>>)
    /\ musicPlayer.currentTrackIndex = 1
    /\ musicPlayer.audio.src = ResolveURL("./assets/audio/happy-2.mp3")
    /\ musicPlayer.audio.paused
    /\ musicPlayer.isPlaying
    /\ musicPlayer.pending = << >>
    /\ state.currentAudioIndex = 0
    /\ ~state.audioMuted
    /\ audioElements[0].paused
    /\ audioElements[0].pending = 0

\* The class with the highest probability in a result, and the first entry
\* of a result.
TopEntry(prediction) ==
    CHOOSE e \in Range(prediction) :
        \A f \in Range(prediction) : f.probability <= e.probability

FirstEntry(prediction) == prediction[1]

Qualifies(e) ==
    /\ e.className \in DOMAIN REDIRECTS
    /\ e.probability >= CONFIDENCE_THRESHOLD

\* The number of results at the end of frames in which Pick gives a
\* qualifying entry of one and the same class: 0 if the last result does not
\* qualify, 1 if it does and the one before shows another class.
RunOf(Pick(_), frames) ==
    LET n == Len(frames)
        Same(k) == \A j \in (n - k + 1)..n :
                       /\ Qualifies(Pick(frames[j]))
                       /\ Pick(frames[j]).className = Pick(frames[n]).className
    IN CHOOSE k \in 0..n : Same(k) /\ \A m \in (k + 1)..n : ~Same(m)

RedirectJustified(Pick(_), r) ==
    /\ Len(r.recent) = REQUIRED_CONSECUTIVE_FRAMES
    /\ \A j \in 1..Len(r.recent) :
          /\ Qualifies(Pick(r.recent[j]))
          /\ Pick(r.recent[j]).className = Pick(r.recent[1]).className
    /\ r.url = REDIRECTS[Pick(r.recent[1]).className]

\* C26: the consecutive count is the number of latest processed results
\* whose top class (the class with the highest probability) is one and the
\* same key of REDIRECTS with probability at least 0.85 (0 after a result
\* whose top class is unmapped or below the threshold, 1 after a change of
\* class), and a redirect is scheduled only after 8 such results.
C26_CountsTopClass ==
    /\ scanner.consecutiveMatches = RunOf(TopEntry, scanner.processed)
    /\ \A i \in 1..Len(scanner.scheduledRedirects) :
          RedirectJustified(TopEntry, scanner.scheduledRedirects[i])

\* What the scanner does: the same with the first entry of each result in
\* place of its top class.
C26_CountsFirstEntry ==
    /\ scanner.consecutiveMatches = RunOf(FirstEntry, scanner.processed)
    /\ \A i \in 1..Len(scanner.scheduledRedirects) :
          RedirectJustified(FirstEntry, scanner.scheduledRedirects[i])

\* C27: in a browser session at most one navigation is scheduled: the flag
\* is set exactly when one has been, once it is set no step schedules
\* another or starts a timer, the camera and the interval stay off, and a
\* page load that finds it set starts neither camera nor inference loop.
C27_OneRedirectPerSession ==
    /\ [](/\ Len(scanner.scheduledRedirects) <= 1
          /\ scanner.redirected <=> Len(scanner.scheduledRedirects) = 1
          /\ scanner.redirected => /\ ~scanner.stream
                                   /\ ~scanner.inferenceInterval
                                   /\ scanner.timers <= 1)
    /\ [][ /\ scanner.redirected =>
                 /\ scanner'.redirected
                 /\ scanner'.scheduledRedirects = scanner.scheduledRedirects
                 /\ scanner'.timers <= scanner.timers
           /\ (PageLoad /\ scanner.redirected) =>
                 /\ ~scanner'.stream
                 /\ ~scanner'.inferenceInterval
                 /\ scanner'.inFlight = 0
                 /\ scanner'.timers = 0
                 /\ scanner'.processed = << >>
         ]_vars

\* The eighth matching result scheduled the redirect while another call was
\* still awaiting its prediction; that call then counted a ninth match and
\* called handleRedirect again: still one navigation, one timer.
C27_Witness ==
    /\ scanner.redirected
    /\ scanner.consecutiveMatches = 9
    /\ Len(scanner.processed) = 9
    /\ Len(scanner.scheduledRedirects) = 1
    /\ scanner.timers = 1
    /\ scanner.inFlight = 0

\* The non-null values of w with the highest number of occurrences, the
\* index of the first occurrence of v in w, and the index at which v
\* completes c occurrences.
MostFrequent(w) ==
    { v \in Range(w) \ {Null} : \A u \in Range(w) \ {Null} : Count(u, w) <= Count(v, w) }

FirstIndex(v, w) == CHOOSE i \in 1..Len(w) : w[i] = v /\ \A j \in 1..(i - 1) : w[j] # v

IndexOfNth(v, w, c) ==
    CHOOSE i \in 1..Len(w) : w[i] = v /\ Count(v, SubSeq(w, 1, i)) = c

C31_StableFollowsFullWindow ==
    /\ (callRet.fn = "update" /\ Len(WindowOf(detectionState, 1)) = SMOOTHING_FRAMES)
          => /\ detectionState.emojiA = getStableValue(WindowOf(detectionState, 1))
             /\ detectionState.emojiB = getStableValue(WindowOf(detectionState, 2))
    /\ Len(WindowOf(detectionState, 1)) < SMOOTHING_FRAMES
          => /\ detectionState.emojiA = Null
             /\ detectionState.emojiB = Null

\* A full window made Smile stable, reset was called, and two updates later
\* the window is still short and both values are null.
C31_Witness ==
    /\ callRet.fn = "update"
    /\ Len(observed) > SMOOTHING_FRAMES
    /\ detectionState.frameCount = 2
    /\ Len(WindowOf(detectionState, 1)) = 2
    /\ detectionState.emojiA = Null
    /\ observed[SMOOTHING_FRAMES] = <<Pred(Smile)>>

\* C32: in every reachable MusicPlayer state currentTrackIndex is -1 exactly
\* when currentPlaylist is empty and otherwise 0 <= currentTrackIndex <
\* currentPlaylist.length, under any interleaving of switchPlaylist, next,
\* prev, play, pause and track-end events.
C32_IndexWithinPlaylist ==
    /\ (musicPlayer.currentTrackIndex = -1) <=> (Len(musicPlayer.currentPlaylist) = 0)
    /\ Len(musicPlayer.currentPlaylist) > 0
          => /\ 0 <= musicPlayer.currentTrackIndex
             /\ musicPlayer.currentTrackIndex < Len(musicPlayer.currentPlaylist)

\* A switch from the second track of a playlist to a key that resolves to an
\* empty playlist: the index is back at -1.
C32_Witness ==
    /\ musicPlayer.currentCombo # Null
    /\ Len(musicPlayer.currentPlaylist) = 0
    /\ musicPlayer.currentTrackIndex = -1
    /\ musicPlayer.audio.src # ""
    /\ musicPlayer.audio.paused
    /\ ~musicPlayer.isPlaying

\* A play command among those the last handler gave the audio element.
SentPlay(m) == \E i \in 1..Len(m.audio.sent) : m.audio.sent[i] = <<"play">>

\* C33: after a switchPlaylist call that changes currentCombo isPlaying is
\* false, also when the session was playing before the call; the first track
\* of the new playlist is loaded, and the call neither gives the audio
\* element a play command nor makes a play() request.
C33_SwitchLeavesStopped ==
    [][ \A comboKey \in Keys :
            (SwitchPlaylist(comboKey) /\ comboKey # musicPlayer.currentCombo)
            => /\ ~musicPlayer'.isPlaying
               /\ musicPlayer'.currentCombo = comboKey
               /\ ~SentPlay(musicPlayer')
               /\ musicPlayer'.pending = musicPlayer.pending
               /\ ResolvePlaylist(comboKey) # << >> =>
                     /\ FirstTrackLoaded(musicPlayer')
                     /\ musicPlayer'.audio.src = ResolveURL(ResolvePlaylist(comboKey)[1].src)
                     /\ musicPlayer.pending = << >> => musicPlayer'.audio.paused
      ]_vars

\* The session was playing the only track of the DEFAULT playlist under an
\* unmapped key and its key changed to 'Happy|Sad': stopped, with the first
\* track of that playlist loaded.
C33_Witness ==
    /\ COMBO_PLAYLISTS = LabelPlaylists
    /\ musicPlayer.currentCombo = KeyOf(Happy, Sad)
    /\ musicPlayer.audio.sent = << <<"pause">>, <<"src", LabelPlaylists[KeyOf(Happy, Sad)][1].src>> >>
    /\ musicPlayer.currentTrackIndex = 0
    /\ ~musicPlayer.isPlaying
    /\ musicPlayer.audio.paused
    /\ musicPlayer.pending = << >>

\* C35: the continuity guard compares keys, not playlists: switchPlaylist(k2)
\* with currentCombo = k1 # k2 pauses a playing session and puts the index on
\* the first track also when k1 and k2 resolve to the same playlist.
C35_GuardComparesKeys ==
    [][ \A k2 \in Keys :
            LET k1 == musicPlayer.currentCombo
            IN ( /\ SwitchPlaylist(k2)
                 /\ k1 # Null
                 /\ k1 # k2
                 /\ ResolvePlaylist(k1) = ResolvePlaylist(k2) )
               => /\ musicPlayer'.currentCombo = k2
                  /\ musicPlayer'.currentPlaylist = musicPlayer.currentPlaylist
                  /\ ~musicPlayer'.isPlaying
                  /\ musicPlayer.isPlaying =>
                        /\ Len(musicPlayer'.audio.sent) >= 1
                        /\ musicPlayer'.audio.sent[1] = <<"pause">>
                  /\ musicPlayer.currentPlaylist # << >> =>
                        /\ musicPlayer'.currentTrackIndex = 0
                        /\ Len(musicPlayer'.audio.sent) >= 1
                        /\ musicPlayer'.audio.sent[Len(musicPlayer'.audio.sent)]
                              = <<"src", musicPlayer.currentPlaylist[1].src>>
      ]_vars

\* With the table whose only playlist is reached by 'Happy|Sad' and by its
\* reversal, a playing session whose key changed to 'Sad|Happy': paused, and
\* the first track loaded again.
C35_Witness ==
    /\ COMBO_PLAYLISTS = NoDefaultPlaylists
    /\ musicPlayer.currentCombo = KeyOf(Sad, Happy)
    /\ musicPlayer.currentPlaylist = NoDefaultPlaylists[KeyOf(Happy, Sad)]
    /\ musicPlayer.audio.sent = << <<"pause">>, <<"src", "./assets/audio/track-a.mp3">> >>
    /\ musicPlayer.currentTrackIndex = 0
    /\ ~musicPlayer.isPlaying

\* Some tick so far left a full window with a quorum value in one of the
\* slots: the stable pair has changed since start.
ChangedSinceStart ==
    \E i \in SMOOTHING_FRAMES..Len(observed), slot \in {1, 2} :
        QuorumValue(LastObserved(SubSeq(observed, 1, i), slot)) # Null

\* C36: after every processed tick of the real-detection loop currentCombo
\* is null, exactly when no change of the stable pair has occurred since
\* start (and then no playlist is loaded), or it is getComboKey() of the
\* detection state.
C36_ComboTracksDetection ==
    /\ musicPlayer.currentCombo = Null
          \/ musicPlayer.currentCombo = getComboKey(detectionState)
    /\ (musicPlayer.currentCombo = Null) <=> ~ChangedSinceStart
    /\ musicPlayer.currentCombo = Null =>
          /\ musicPlayer.currentPlaylist = << >>
          /\ musicPlayer.audio.src = ""

\* Smile became stable in slot A at the eighth tick and Devil in slot B at
\* the ninth: the key of the session is the sorted pair.
C36_Witness ==
    /\ Len(observed) = 9
    /\ stateChanged
    /\ detectionState.emojiA = Smile
    /\ detectionState.emojiB = Devil
    /\ musicPlayer.currentCombo = KeyOf(Smile, Devil)
    /\ musicPlayer.currentPlaylist = ShippedPlaylists[KeyOf(Smile, Devil)]

\* C34: when update reports a change and getComboKey() gives the key it gave
\* before the tick, the switchPlaylist call of the tick leaves
\* currentPlaylist, currentTrackIndex and isPlaying as they were and gives
\* the audio element no command.  (A step that lengthens observed is a tick
\* of the loop.)
C34_SameKeyLeavesPlayer ==
    [][ ( /\ observed' # observed
          /\ stateChanged'
          /\ getComboKey(detectionState') = getComboKey(detectionState) )
            => /\ musicPlayer'.currentPlaylist = musicPlayer.currentPlaylist
               /\ musicPlayer'.currentTrackIndex = musicPlayer.currentTrackIndex
               /\ musicPlayer'.isPlaying = musicPlayer.isPlaying
               /\ musicPlayer'.currentCombo = musicPlayer.currentCombo
               /\ musicPlayer'.audio.src = musicPlayer.audio.src
               /\ musicPlayer'.audio.paused = musicPlayer.audio.paused
               /\ NothingSent(musicPlayer')
      ]_vars

\* Happy was stable in slot A alone and at the ninth tick left slot A and
\* became stable in slot B; the session, on 'Happy|<em dash>' since the
\* eighth tick, plays the second track of that playlist.
C34_Witness ==
    /\ Len(observed) = 9
    /\ stateChanged
    /\ LastOf(observed) = <<Pred(Sad), Pred(Happy)>>
    /\ detectionState.emojiA = Null
    /\ detectionState.emojiB = Happy
    /\ musicPlayer.currentCombo = KeyOf(Happy, <<EM_DASH>>)
    /\ musicPlayer.currentTrackIndex = 1
    /\ musicPlayer.isPlaying
    /\ ~musicPlayer.audio.paused
    /\ NothingSent(musicPlayer)

\* C39: isPlaying is true only if the audio element accepted the latest play
\* request for the loaded track: when the element rejects a play() made by
\* next(), prev() or a track-end advance and no other request is unsettled,
\* isPlaying is false.
C39_RejectedPlayClearsFlag ==
    [][ (PlayRejected /\ musicPlayer'.pending = << >>) => ~musicPlayer'.isPlaying ]_vars

UnlockCompleted == \A t \in Targets : ~audioElements[t].unlock

\* C37: once the unlock callbacks of the tap have completed, after any
\* sequence of found, lost and mute events at most one audio element is
\* playing, and it is the element of currentAudioIndex.
C37_SingleChannel ==
    UnlockCompleted =>
        /\ \A t \in Targets : ~audioElements[t].paused => t = state.currentAudioIndex
        /\ Cardinality({t \in Targets : ~audioElements[t].paused}) <= 1

\* Unmuted, target 0 and then target 1 were found and every unlock promise
\* is settled: element 1 alone is playing and target 1 owns the channel.
C37_Witness ==
    /\ UnlockCompleted
    /\ Len(eventLog) = 3
    /\ state.detectedTargets = <<0, 1>>
    /\ state.currentAudioIndex = 1
    /\ ~audioElements[1].paused
    /\ audioElements[0].paused
    /\ audioElements[1].pending = 0

\* C38: the pause-and-rewind callback of an unlock promise never runs on the
\* element of the current channel owner.
C38_UnlockSparesOwner ==
    [][ \A t \in Targets : UnlockResolved(t) => state.currentAudioIndex # t ]_vars

============================================================================
